---------------------------- MODULE Spec2Model ----------------------------
(***************************************************************************)
(* Verification model of the two controllers of kernel-Nexus4:             *)
(*   - the thermal frequency limiter, in its two builds                    *)
(*       "shutdown"    drivers/thermal/msm_thermal.c                       *)
(*       "throttle_on" the msm_thermal copy at the end of                  *)
(*                     arch/arm/kernel/auto_hotplug.c                      *)
(*   - the auto_hotplug governor of arch/arm/kernel/auto_hotplug.c         *)
(* Work items follow the kernel workqueue contract: a delayed work is      *)
(* "idle", has its timer armed ("timer") or sits in the queue ("queued");  *)
(* time itself is abstract, an armed timer may expire at any moment.       *)
(***************************************************************************)
EXTENDS Integers, Sequences, FiniteSets, TLC

VARIABLES
    \* ---- thermal limiter ----
    variant,                \* which build of msm_thermal is running
    enabled,                \* static int enabled
    limited_max_freq,       \* static uint32_t limited_max_freq
    limit_idx,              \* static int / unsigned int limit_idx
    limit_idx_low,          \* shutdown build: lowest index
    min_freq_index,         \* throttle_on build: lowest index
    limit_idx_high,
    table,                  \* NULL or the number of entries before CPUFREQ_TABLE_END
    limit_init,             \* static int limit_init of check_temp
    throttle_on,
    throttle_temp,
    temp_hysteresis_degC,   \* msm_thermal_info.temp_hysteresis_degC
    freq_step,              \* msm_thermal_info.freq_step
    check_temp_work,        \* "idle" | "timer" | "queued"
    ct_pc,                  \* position of the running check_temp
    temp,                   \* local of check_temp
    max_freq,               \* local of check_temp
    poll_faster,            \* local near_limit / poll_faster of check_temp
    cpu_max_freq,           \* per-core ceiling held by msm_cpufreq
    poweroff_calls,         \* number of orderly_poweroff() calls made
    se_pc,                  \* position of the caller of set_enabled
    reads,                  \* temperatures read so far by a scripted sensor
    poll_ms,                \* msm_thermal_info.poll_ms, a 32-bit word
    poll_delay,             \* milliseconds check_temp last re-armed itself with
    unpause_reg,            \* flags as loaded by a running hotplug_unpause_work_fn
    \* ---- auto_hotplug ----
    flags,                  \* unsigned char flags, as the set of its bits
    cpu_online,             \* the cores that are online
    history,                \* the ring buffer, as the sequence of its slots
    index,                  \* the write cursor
    sampling_periods,       \* the module parameter
    live_sampling_periods,
    index_max_value,
    hotplug_decision_work,  \* delayed work: "idle" | "timer" | "queued"
    hotplug_unpause_work,   \* delayed work
    hotplug_offline_work,   \* delayed work
    hotplug_online_all_work,    \* work: "idle" | "queued"
    hotplug_online_single_work, \* work
    hotplug_offline_all_work,   \* work
    dec_pc,                 \* position of the running hotplug_decision_work_fn
    online_cpus,            \* local of hotplug_decision_work_fn
    avg_running,            \* local of hotplug_decision_work_fn
    hd_pc,                  \* position of the caller of hotplug_disable
    bp_pc,                  \* position of the caller of hotplug_boostpulse
    es_pc,                  \* position of the early-suspend handler
    enable_all_load_threshold,
    enable_load_threshold,
    disable_load_threshold,
    min_online_cpus,
    max_online_cpus,
    min_sampling_rate,
    samples,                \* the values the sampler stored, oldest first
    param_ret               \* what the last write of a module parameter returned

thermal_vars == << variant, enabled, limited_max_freq, limit_idx, limit_idx_low,
                   min_freq_index, limit_idx_high, table, limit_init, throttle_on,
                   throttle_temp, temp_hysteresis_degC, freq_step, check_temp_work,
                   ct_pc, temp, max_freq, poll_faster, cpu_max_freq,
                   poweroff_calls, se_pc >>

hist_vars == << history, index, sampling_periods, live_sampling_periods,
                index_max_value >>

work_vars == << hotplug_decision_work, hotplug_unpause_work, hotplug_offline_work,
                hotplug_online_all_work, hotplug_online_single_work,
                hotplug_offline_all_work >>

tun_vars == << enable_all_load_threshold, enable_load_threshold,
               disable_load_threshold, min_online_cpus, max_online_cpus,
               min_sampling_rate >>

hotplug_vars == << flags, cpu_online, hist_vars, work_vars, dec_pc, online_cpus,
                   avg_running, hd_pc, bp_pc, es_pc, tun_vars >>

poll_vars == << poll_ms, poll_delay >>

vars == << thermal_vars, poll_vars, unpause_reg, reads, hotplug_vars, samples, param_ret >>

----------------------------------------------------------------------------
(* Bounds of the model                                                     *)

NumCpus == 3
ShutdownTableLen == 5
ThrottleOnTableLen == 9
MaxFreqStep == 9
MaxHysteresis == 4
MaxPoweroff == 2

Cpus == 0 .. (NumCpus - 1)

----------------------------------------------------------------------------
(* 32-bit arithmetic. A 32-bit word is held as the integer its bits denote  *)
(* in two's complement, so the unsigned value 2^32 - k is written -k: an   *)
(* unsigned subtraction that wraps below zero yields a negative number     *)
(* here, the conversion between int and unsigned int is the identity on    *)
(* the bits, and only the comparisons differ between the two types.        *)
(* Sums and differences of the model stay far inside 31 bits.              *)

\* a < b on unsigned int
ULt(a, b) == IF (a >= 0) = (b >= 0) THEN a < b ELSE b < 0

\* a <= b on unsigned int
ULe(a, b) == a = b \/ ULt(a, b)

----------------------------------------------------------------------------
(* Thermal limiter: constants                                              *)

\* the table pointer when cpufreq has no table for cpu 0
NULL == 0

\* -EINVAL
EINVAL == -22

\* 0xFFFFFFFF and ~1 as 32-bit words
MSM_CPUFREQ_NO_LIMIT == -1
CPUFREQ_TABLE_END == -2
SHUTDOWN_TEMP == 80
DEFAULT_MIN_FREQ_INDEX == 7

DEFAULT_THROTTLE_TEMP(v) == IF v = "shutdown" THEN 64 ELSE 70
MAX_THROTTLE_TEMP(v) == IF v = "shutdown" THEN 74 ELSE 80
COOL_TEMP(v) == IF v = "shutdown" THEN 40 ELSE 45

Variants == {"shutdown", "throttle_on"}

\* the frequency of entry i of the platform's table (ascending)
TableFreq(i) == 384000 + 108000 * i

\* what table[i].frequency yields: an entry, the end marker, or, outside the
\* array, whatever memory holds there
GarbageFreqs == {0, TableFreq(0), MSM_CPUFREQ_NO_LIMIT}

TableRead(i) ==
    IF table = NULL THEN GarbageFreqs
    ELSE IF 0 <= i /\ i < table THEN {TableFreq(i)}
    ELSE IF i = table THEN {CPUFREQ_TABLE_END}
    ELSE GarbageFreqs

\* platform configurations: no table, a table too short for the build
\* (BUG_ON), and a table the build accepts
TableLens(v) == IF v = "shutdown" THEN {NULL, 1, ShutdownTableLen}
                ELSE {NULL, ShutdownTableLen, ThrottleOnTableLen}
FreqSteps == {1, 2, MaxFreqStep}
Hystereses == {2, MaxHysteresis}

\* temperatures the sensor may report: every threshold the limiter compares
\* with, and its two neighbours
Thresholds == {COOL_TEMP(variant), throttle_temp - temp_hysteresis_degC,
               throttle_temp, MAX_THROTTLE_TEMP(variant), SHUTDOWN_TEMP}
Temps == {th + d : th \in Thresholds, d \in {-1, 0, 1}}

\* values written to the throttle_temp parameter
ThrottleWrites == {39, 45, 64, 70, 81}


----------------------------------------------------------------------------
(* Thermal limiter: check_temp                                             *)

\* the recovery bound without the hysteresis band
HystBoundNoBand == throttle_temp

\* throttle_temp - msm_thermal_info.temp_hysteresis_degC, computed in
\* unsigned 32-bit arithmetic (the hysteresis is a uint32_t)
HystBound == throttle_temp - temp_hysteresis_degC

\* a step down that ignores freq_step
StepDownByOne(idx, low) == IF idx - 1 < low THEN low ELSE idx - 1

\* limit_idx -= freq_step, then the clamp to the lowest index.
\* shutdown build: limit_idx is an int, the comparison is signed
StepDownInt(idx, low) ==
    LET n == idx - freq_step
    IN  IF n < low THEN low ELSE n

\* throttle_on build: limit_idx is an unsigned int, the subtraction wraps
StepDownUnsigned(idx, low) ==
    LET n == idx - freq_step
    IN  IF ULt(n, low) THEN low ELSE n

\* a recovery step of twice freq_step
StepUpTwice(idx) == idx + 2 * freq_step

\* limit_idx += freq_step of the shutdown build's recovery branch
StepUpInt(idx) == idx + freq_step

\* BUG_ON() of msm_thermal_get_freq_table, with i entries counted
TableBug(i) ==
    IF variant = "shutdown"
    THEN (i - 1) <= 0
    ELSE ULe(i - 1, 0) \/ ULe(i - 1, DEFAULT_MIN_FREQ_INDEX)

\* a check_temp that would go on to setmaxfreq after a failed read
ReadFailAppliesLimit ==
    /\ temp' = 0
    /\ max_freq' = limited_max_freq
    /\ poll_faster' = FALSE
    /\ ct_pc' = "setmaxfreq"
    /\ UNCHANGED << enabled, limit_idx, limit_idx_low, min_freq_index,
                    limit_idx_high, limit_init, throttle_on, poweroff_calls >>

\* tsens_get_temp failed: goto reschedule
CheckTempReadFail ==
    /\ temp' = 0
    /\ max_freq' = limited_max_freq
    /\ poll_faster' = FALSE
    /\ ct_pc' = "reschedule"
    /\ UNCHANGED << enabled, limit_idx, limit_idx_low, min_freq_index,
                    limit_idx_high, limit_init, throttle_on, poweroff_calls >>

\* a check_temp that would mark the table as initialised although
\* msm_thermal_get_freq_table failed, so that no later call resolves it
NoTableGivesUp(t) ==
    /\ temp' = t
    /\ max_freq' = limited_max_freq
    /\ poll_faster' = FALSE
    /\ ct_pc' = "reschedule"
    /\ limit_init' = TRUE
    /\ UNCHANGED << enabled, limit_idx, limit_idx_low, min_freq_index,
                    limit_idx_high, throttle_on, poweroff_calls >>

\* msm_thermal_get_freq_table returned -EINVAL: goto reschedule
CheckTempNoTable(t) ==
    /\ temp' = t
    /\ max_freq' = limited_max_freq
    /\ poll_faster' = FALSE
    /\ ct_pc' = "reschedule"
    /\ UNCHANGED << enabled, limit_idx, limit_idx_low, min_freq_index,
                    limit_idx_high, limit_init, throttle_on, poweroff_calls >>

\* BUG_ON() fired in msm_thermal_get_freq_table: the kernel stops here
CheckTempBug(t) ==
    /\ temp' = t
    /\ max_freq' = limited_max_freq
    /\ poll_faster' = FALSE
    /\ ct_pc' = "bug"
    /\ limit_idx_high' = (table - 1)
    /\ limit_idx' = (table - 1)
    /\ limit_idx_low' = 0
    /\ min_freq_index' = IF variant = "shutdown" THEN min_freq_index
                         ELSE DEFAULT_MIN_FREQ_INDEX
    /\ UNCHANGED << enabled, limit_init, throttle_on, poweroff_calls >>

\* the body of check_temp of the shutdown build from the SHUTDOWN_TEMP test to
\* the test before setmaxfreq; idx, low, high are limit_idx, limit_idx_low and
\* limit_idx_high as the freq-table initialisation left them
ShutdownBuildLimit(t, idx, low, high) ==
    /\ throttle_on' = throttle_on
    /\ IF t >= SHUTDOWN_TEMP
       THEN /\ poweroff_calls < MaxPoweroff
            /\ poweroff_calls' = poweroff_calls + 1
            /\ max_freq' \in TableRead(idx)
            /\ limit_idx' = idx
            /\ enabled' = FALSE
            /\ poll_faster' = FALSE
            /\ ct_pc' = "setmaxfreq"
       ELSE /\ UNCHANGED << poweroff_calls, enabled >>
            /\ poll_faster' = ULt(HystBound, t)
            /\ IF t >= throttle_temp
               THEN IF idx = low
                    THEN /\ limit_idx' = idx
                         /\ max_freq' = limited_max_freq
                         /\ ct_pc' = "reschedule"
                    ELSE /\ limit_idx' = StepDownInt(idx, low)
                         /\ max_freq' \in TableRead(limit_idx')
                         /\ ct_pc' = IF max_freq' = limited_max_freq
                                     THEN "reschedule" ELSE "setmaxfreq"
               ELSE IF ULt(t, HystBound)
               THEN IF idx = high
                    THEN /\ limit_idx' = idx
                         /\ max_freq' = limited_max_freq
                         /\ ct_pc' = "reschedule"
                    ELSE /\ limit_idx' = IF StepUpInt(idx) >= high
                                         THEN high ELSE StepUpInt(idx)
                         /\ IF StepUpInt(idx) >= high
                            THEN max_freq' = MSM_CPUFREQ_NO_LIMIT
                            ELSE max_freq' \in TableRead(limit_idx')
                         /\ ct_pc' = IF max_freq' = limited_max_freq
                                     THEN "reschedule" ELSE "setmaxfreq"
               ELSE /\ limit_idx' = idx
                    /\ max_freq' = limited_max_freq
                    /\ ct_pc' = "reschedule"

\* the body of check_temp of the throttle_on build from the MAX_THROTTLE_TEMP
\* test to setmaxfreq
ThrottleOnBuildLimit(t, idx, low, high) ==
    /\ UNCHANGED << poweroff_calls, enabled >>
    /\ IF t >= MAX_THROTTLE_TEMP(variant)
       THEN /\ poll_faster' = TRUE
            /\ limit_idx' = low
            /\ max_freq' \in TableRead(limit_idx')
            /\ throttle_on' = TRUE
            /\ ct_pc' = "setmaxfreq"
       ELSE IF ULt(t, HystBound)
       THEN /\ poll_faster' = FALSE
            /\ throttle_on' = FALSE
            /\ IF idx = high
               THEN /\ limit_idx' = idx
                    /\ max_freq' = limited_max_freq
                    /\ ct_pc' = "reschedule"
               ELSE /\ limit_idx' = high
                    /\ max_freq' \in TableRead(limit_idx')
                    /\ ct_pc' = "setmaxfreq"
       ELSE IF t >= throttle_temp
       THEN /\ poll_faster' = TRUE
            /\ IF idx = low
               THEN /\ limit_idx' = idx
                    /\ max_freq' = limited_max_freq
                    /\ throttle_on' = throttle_on
                    /\ ct_pc' = "reschedule"
               ELSE /\ limit_idx' = StepDownUnsigned(idx, low)
                    /\ max_freq' \in TableRead(limit_idx')
                    /\ throttle_on' = TRUE
                    /\ ct_pc' = "setmaxfreq"
       ELSE /\ poll_faster' = TRUE
            /\ throttle_on' = FALSE
            /\ IF idx = high
               THEN /\ limit_idx' = idx
                    /\ max_freq' = limited_max_freq
                    /\ ct_pc' = "reschedule"
               ELSE /\ limit_idx' = high
                    /\ max_freq' \in TableRead(limit_idx')
                    /\ ct_pc' = "setmaxfreq"

\* check_temp with a temperature read, the table resolved now or before
CheckTempLimit(t) ==
    LET high == IF limit_init THEN limit_idx_high ELSE (table - 1)
        idx  == IF limit_init THEN limit_idx ELSE (table - 1)
        low  == IF variant = "shutdown"
                THEN (IF limit_init THEN limit_idx_low ELSE 0)
                ELSE (IF limit_init THEN min_freq_index ELSE DEFAULT_MIN_FREQ_INDEX)
    IN  /\ temp' = t
        /\ limit_init' = TRUE
        /\ limit_idx_high' = high
        /\ limit_idx_low' = IF variant = "shutdown" THEN low ELSE limit_idx_low
        /\ min_freq_index' = IF variant = "shutdown" THEN min_freq_index ELSE low
        /\ IF variant = "shutdown"
           THEN ShutdownBuildLimit(t, idx, low, high)
           ELSE ThrottleOnBuildLimit(t, idx, low, high)

\* The model follows the limiter while limit_idx addresses an entry of the
\* table; an index that has left the table is not stepped any further
IndexInTable == limit_init => (0 <= limit_idx /\ limit_idx < table)

\* check_temp from its entry to setmaxfreq / reschedule; the worker takes the
\* queued work, which clears its pending state. ok: tsens_get_temp succeeded
\* and reported t
CheckTempDecide(t, ok) ==
    /\ check_temp_work = "queued"
    /\ ct_pc = "idle"
    /\ IndexInTable
    /\ check_temp_work' = "idle"
    /\ IF ~ok THEN CheckTempReadFail
       ELSE IF ~limit_init /\ table = NULL THEN CheckTempNoTable(t)
       ELSE IF ~limit_init /\ TableBug(table) THEN CheckTempBug(t)
       ELSE CheckTempLimit(t)
    /\ UNCHANGED << variant, limited_max_freq, table, throttle_temp,
                    temp_hysteresis_degC, freq_step, cpu_max_freq, se_pc >>

\* an update that stops after core 0
UpdateFirstCpuOnly(f, done) ==
    /\ cpu_max_freq' = [c \in Cpus |-> IF c \in done /\ c = 0 THEN f
                                     ELSE cpu_max_freq[c]]
    /\ limited_max_freq' = IF done = {} THEN limited_max_freq ELSE f

\* update_cpu_max_freq(cpu, f) for every possible cpu; done is the set of
\* cores on which msm_cpufreq_set_freq_limits succeeded. The specifications
\* below take the call to succeed on every core
UpdateAllCpus(f, done) ==
    /\ cpu_max_freq' = [c \in Cpus |-> IF c \in done THEN f ELSE cpu_max_freq[c]]
    /\ limited_max_freq' = IF done = {} THEN limited_max_freq ELSE f

\* setmaxfreq: the for_each_possible_cpu loop of check_temp
CheckTempApply(done) ==
    /\ ct_pc = "setmaxfreq"
    /\ UpdateAllCpus(max_freq, done)
    /\ ct_pc' = "reschedule"
    /\ UNCHANGED << variant, enabled, limit_idx, limit_idx_low, min_freq_index,
                    limit_idx_high, table, limit_init, throttle_on, throttle_temp,
                    temp_hysteresis_degC, freq_step, check_temp_work, temp,
                    max_freq, poll_faster, poweroff_calls, se_pc >>

\* reschedule: the test of `enabled`
CheckTempReschedule ==
    /\ ct_pc = "reschedule"
    /\ ct_pc' = IF enabled THEN "schedule" ELSE "idle"
    /\ temp' = IF enabled THEN temp ELSE 0
    /\ max_freq' = IF enabled THEN max_freq ELSE 0
    /\ poll_faster' = IF enabled THEN poll_faster ELSE FALSE
    /\ UNCHANGED << variant, enabled, limited_max_freq, limit_idx, limit_idx_low,
                    min_freq_index, limit_idx_high, table, limit_init, throttle_on,
                    throttle_temp, temp_hysteresis_degC, freq_step, check_temp_work,
                    cpu_max_freq, poweroff_calls, se_pc >>

\* reschedule: schedule_delayed_work(&check_temp_work, ...), then return
CheckTempSchedule ==
    /\ ct_pc = "schedule"
    /\ check_temp_work' = IF check_temp_work = "idle" THEN "timer"
                          ELSE check_temp_work
    /\ ct_pc' = "idle"
    /\ temp' = 0
    /\ max_freq' = 0
    /\ poll_faster' = FALSE
    /\ UNCHANGED << variant, enabled, limited_max_freq, limit_idx, limit_idx_low,
                    min_freq_index, limit_idx_high, table, limit_init, throttle_on,
                    throttle_temp, temp_hysteresis_degC, freq_step, cpu_max_freq,
                    poweroff_calls, se_pc >>

\* the timer of check_temp_work expires: the work is queued
CheckTempTimer ==
    /\ check_temp_work = "timer"
    /\ ct_pc # "bug"
    /\ check_temp_work' = "queued"
    /\ UNCHANGED << variant, enabled, limited_max_freq, limit_idx, limit_idx_low,
                    min_freq_index, limit_idx_high, table, limit_init, throttle_on,
                    throttle_temp, temp_hysteresis_degC, freq_step, ct_pc, temp,
                    max_freq, poll_faster, cpu_max_freq, poweroff_calls, se_pc >>

----------------------------------------------------------------------------
(* Thermal limiter: the enabled and throttle_temp parameters               *)

\* set_enabled: param_set_bool, then disable_msm_thermal() when cleared
SetEnabled(v) ==
    /\ se_pc = "idle"
    /\ ct_pc # "bug"
    /\ enabled' = v
    /\ se_pc' = IF v THEN "idle" ELSE "cancel"
    /\ UNCHANGED << variant, limited_max_freq, limit_idx, limit_idx_low,
                    min_freq_index, limit_idx_high, table, limit_init, throttle_on,
                    throttle_temp, temp_hysteresis_degC, freq_step, check_temp_work,
                    ct_pc, temp, max_freq, poll_faster, cpu_max_freq,
                    poweroff_calls >>

\* disable_msm_thermal: cancel_delayed_work() removes an armed timer and
\* leaves alone a work that is already queued
DisableCancel ==
    /\ se_pc = "cancel"
    /\ check_temp_work' = IF check_temp_work = "timer" THEN "idle"
                          ELSE check_temp_work
    /\ se_pc' = "flush"
    /\ UNCHANGED << variant, enabled, limited_max_freq, limit_idx, limit_idx_low,
                    min_freq_index, limit_idx_high, table, limit_init, throttle_on,
                    throttle_temp, temp_hysteresis_degC, freq_step, ct_pc, temp,
                    max_freq, poll_faster, cpu_max_freq, poweroff_calls >>

\* disable_msm_thermal: flush_scheduled_work() returns once the queued or
\* running check_temp has finished; an armed timer is not waited for
DisableFlush ==
    /\ se_pc = "flush"
    /\ check_temp_work # "queued"
    /\ ct_pc = "idle"
    /\ se_pc' = "reset"
    /\ UNCHANGED << variant, enabled, limited_max_freq, limit_idx, limit_idx_low,
                    min_freq_index, limit_idx_high, table, limit_init, throttle_on,
                    throttle_temp, temp_hysteresis_degC, freq_step, check_temp_work,
                    ct_pc, temp, max_freq, poll_faster, cpu_max_freq,
                    poweroff_calls >>

\* disable_msm_thermal: the reset of the ceiling, then the return
DisableReset(done) ==
    /\ se_pc = "reset"
    /\ IF limited_max_freq = MSM_CPUFREQ_NO_LIMIT
       THEN UNCHANGED << cpu_max_freq, limited_max_freq >>
       ELSE UpdateAllCpus(MSM_CPUFREQ_NO_LIMIT, done)
    /\ se_pc' = "idle"
    /\ UNCHANGED << variant, enabled, limit_idx, limit_idx_low, min_freq_index,
                    limit_idx_high, table, limit_init, throttle_on, throttle_temp,
                    temp_hysteresis_degC, freq_step, check_temp_work, ct_pc, temp,
                    max_freq, poll_faster, poweroff_calls >>

\* set_throttle_temp with the number strict_strtol parsed
SetThrottleTemp(num) ==
    /\ ct_pc # "bug"
    /\ IF num > MAX_THROTTLE_TEMP(variant) \/ num < COOL_TEMP(variant)
       THEN /\ param_ret' = EINVAL
            /\ UNCHANGED throttle_temp
       ELSE /\ param_ret' = 0
            /\ throttle_temp' = num
    /\ UNCHANGED << variant, enabled, limited_max_freq, limit_idx, limit_idx_low,
                    min_freq_index, limit_idx_high, table, limit_init, throttle_on,
                    temp_hysteresis_degC, freq_step, check_temp_work, ct_pc, temp,
                    max_freq, poll_faster, cpu_max_freq, poweroff_calls, se_pc >>

----------------------------------------------------------------------------
(* auto_hotplug: constants and the work queue                              *)

\* The history is modelled at a reduced scale: the code accepts
\* sampling_periods of 5..50, starts with 10 and seeds 5 slots on resume
MinSamplingPeriods == 2
DefaultSamplingPeriods == 2
MaxSamplingPeriods == 3

DEFAULT_MIN_SAMPLING_RATE == 20
DEFAULT_ENABLE_LOAD_THRESHOLD == 200
DEFAULT_DISABLE_LOAD_THRESHOLD == 80

CPUS_AVAILABLE == NumCpus

\* what nr_running() may return
RunningCounts == {0, 5}

\* what a slot of the history may hold
Samples == {100 * r : r \in RunningCounts}

HOTPLUG_DISABLED == "HOTPLUG_DISABLED"
HOTPLUG_PAUSED == "HOTPLUG_PAUSED"
BOOSTPULSE_ACTIVE == "BOOSTPULSE_ACTIVE"
EARLYSUSPEND_ACTIVE == "EARLYSUSPEND_ACTIVE"

\* a schedule_delayed_work that arms nothing
ScheduleNever(w) == w

\* a schedule_delayed_work that ignores its delay
ScheduleAtOnce(w) == IF w = "idle" THEN "queued" ELSE w

\* schedule_delayed_work / schedule_delayed_work_on with a delay: arms the
\* timer unless the work is pending
ScheduleDelayed(w) == IF w = "idle" THEN "timer" ELSE w

\* schedule_work, and schedule_delayed_work with delay 0: queues the work
\* unless it is pending
ScheduleNow(w) == IF w = "idle" THEN "queued" ELSE w

\* delayed_work_pending / work_pending
Pending(w) == w # "idle"

\* a cancel_delayed_work that removes nothing
CancelNothing(w) == w

\* cancel_delayed_work: removes an armed timer, leaves a queued work alone
CancelDelayed(w) == IF w = "timer" THEN "idle" ELSE w

\* cancel_delayed_work_sync, once the work function is not running: the work
\* is neither pending nor running
CancelSync(w) == "idle"

----------------------------------------------------------------------------
(* auto_hotplug: hotplug_decision_work_fn                                  *)

\* history[j]; g is what memory outside the buffer holds
Slot(h, j, g) == IF 0 <= j /\ j < Len(h) THEN h[j + 1] ELSE g

\* the for loop that sums the history: i counts the n iterations, j walks
\* down from the cursor; at j = 0 the body sets j to imax and the loop's
\* j-- then applies to it
RECURSIVE SumHistory(_, _, _, _, _, _, _)
SumHistory(h, n, imax, i, j, acc, g) ==
    IF i >= n THEN acc
    ELSE SumHistory(h, n, imax, i + 1, (IF j = 0 THEN imax ELSE j) - 1,
                    acc + Slot(h, j, g), g)

\* if (unlikely(index++ == index_max_value)) index = 0;
NextIndex(i, imax) == IF i = imax THEN 0 ELSE i + 1

\* What history points to after krealloc(history, n * sizeof(int)) returned
\* non-NULL.  The result is tested and then dropped: when the n slots fit
\* the buffer it is returned as it is; otherwise the content moved to a new
\* buffer, the old one was freed, and history, which still points to it,
\* has no allocated slot left.
Realloc(h, n) == IF n <= Len(h) THEN h ELSE << >>

\* hotplug_decision_work_fn from its entry to the average; running is
\* nr_running() * 100, ok whether krealloc succeeded, g what a read outside
\* the buffer yields.  A store outside the buffer is undefined: the work
\* function is left at "oob" and nothing is said about what follows.
DecisionSample(running, ok, g) ==
    LET resize == live_sampling_periods # sampling_periods /\ ok
        buf  == IF resize THEN Realloc(history, live_sampling_periods)
                ELSE history
        live == IF resize THEN sampling_periods ELSE live_sampling_periods
        imax == IF resize THEN sampling_periods - 1 ELSE index_max_value
    IN
    /\ hotplug_decision_work = "queued"
    /\ dec_pc = "idle"
    /\ hotplug_decision_work' = "idle"
    /\ online_cpus' = Cardinality(cpu_online)
    /\ live_sampling_periods' = live
    /\ index_max_value' = imax
    /\ IF index < Len(buf)
       THEN /\ history' = [buf EXCEPT ![index + 1] = running]
            /\ avg_running' =
                  SumHistory(history', live, imax, 0, index, 0, g) \div live
            /\ index' = NextIndex(index, imax)
            /\ dec_pc' = "decide"
       ELSE /\ history' = buf
            /\ dec_pc' = "oob"
            /\ UNCHANGED << avg_running, index >>
    /\ UNCHANGED << flags, cpu_online, sampling_periods, hotplug_unpause_work,
                    hotplug_offline_work, hotplug_online_all_work,
                    hotplug_online_single_work, hotplug_offline_all_work,
                    hd_pc, bp_pc, es_pc, tun_vars >>

\* hotplug_decision_work_fn from the test of HOTPLUG_DISABLED to its return
DecisionDecide ==
    LET disable_load == disable_load_threshold * online_cpus
        enable_load  == enable_load_threshold * online_cpus
        room == online_cpus < CPUS_AVAILABLE /\ max_online_cpus > online_cpus
    IN
    /\ dec_pc = "decide"
    /\ dec_pc' = "idle"
    /\ online_cpus' = 0
    /\ avg_running' = 0
    /\ IF HOTPLUG_DISABLED \notin flags /\ avg_running >= enable_all_load_threshold
          /\ room
       THEN /\ flags' = flags \cup {HOTPLUG_PAUSED}
            /\ hotplug_offline_work' = CancelDelayed(hotplug_offline_work)
            /\ hotplug_online_all_work' = ScheduleNow(hotplug_online_all_work)
            /\ UNCHANGED << hotplug_decision_work, hotplug_online_single_work >>
       ELSE IF HOTPLUG_DISABLED \notin flags /\ HOTPLUG_PAUSED \in flags
       THEN /\ hotplug_decision_work' = ScheduleDelayed(hotplug_decision_work)
            /\ UNCHANGED << flags, hotplug_offline_work, hotplug_online_all_work,
                            hotplug_online_single_work >>
       ELSE IF HOTPLUG_DISABLED \notin flags /\ avg_running >= enable_load /\ room
       THEN /\ hotplug_offline_work' = CancelDelayed(hotplug_offline_work)
            /\ hotplug_online_single_work' =
                    ScheduleNow(hotplug_online_single_work)
            /\ UNCHANGED << flags, hotplug_decision_work, hotplug_online_all_work >>
       ELSE IF HOTPLUG_DISABLED \notin flags /\ avg_running <= disable_load
               /\ min_online_cpus < online_cpus
       THEN /\ hotplug_offline_work' = ScheduleDelayed(hotplug_offline_work)
            /\ flags' = flags \ {BOOSTPULSE_ACTIVE}
            /\ hotplug_decision_work' = ScheduleDelayed(hotplug_decision_work)
            /\ UNCHANGED << hotplug_online_all_work, hotplug_online_single_work >>
       ELSE /\ hotplug_decision_work' = ScheduleDelayed(hotplug_decision_work)
            /\ UNCHANGED << flags, hotplug_offline_work, hotplug_online_all_work,
                            hotplug_online_single_work >>
    /\ UNCHANGED << cpu_online, hist_vars, hotplug_unpause_work,
                    hotplug_offline_all_work, hd_pc, bp_pc, es_pc, tun_vars >>

\* the timer of a delayed work expires: the work is queued
DecisionTimer ==
    /\ hotplug_decision_work = "timer"
    /\ hotplug_decision_work' = "queued"
    /\ UNCHANGED << flags, cpu_online, hist_vars, hotplug_unpause_work,
                    hotplug_offline_work, hotplug_online_all_work,
                    hotplug_online_single_work, hotplug_offline_all_work,
                    dec_pc, online_cpus, avg_running, hd_pc, bp_pc, es_pc, tun_vars >>

OfflineTimer ==
    /\ hotplug_offline_work = "timer"
    /\ hotplug_offline_work' = "queued"
    /\ UNCHANGED << flags, cpu_online, hist_vars, hotplug_decision_work,
                    hotplug_unpause_work, hotplug_online_all_work,
                    hotplug_online_single_work, hotplug_offline_all_work,
                    dec_pc, online_cpus, avg_running, hd_pc, bp_pc, es_pc, tun_vars >>

UnpauseTimer ==
    /\ hotplug_unpause_work = "timer"
    /\ hotplug_unpause_work' = "queued"
    /\ UNCHANGED << flags, cpu_online, hist_vars, hotplug_decision_work,
                    hotplug_offline_work, hotplug_online_all_work,
                    hotplug_online_single_work, hotplug_offline_all_work,
                    dec_pc, online_cpus, avg_running, hd_pc, bp_pc, es_pc, tun_vars >>

----------------------------------------------------------------------------
(* auto_hotplug: the other work functions                                  *)

dec_locals == << dec_pc, online_cpus, avg_running >>
call_pcs == << hd_pc, bp_pc, es_pc >>

\* the first cpu of a for_each loop over S
FirstCpu(S) == CHOOSE c \in S : \A d \in S : c <= d

\* the cores hotplug_online_all_work_fn calls cpu_up on
OnlineAllTargets == {c \in Cpus : c \notin cpu_online}

\* the cores hotplug_offline_all_work_fn calls cpu_down on
OfflineAllTargets == {c \in Cpus : c \in cpu_online /\ c # 0}

\* the cores hotplug_online_single_work_fn may call cpu_up on
OnlineSingleTargets == {c \in Cpus : c # 0 /\ c \notin cpu_online}

\* hotplug_offline_work_fn without its test of cpu
AnyOnlineCpu == cpu_online

\* the cores hotplug_offline_work_fn may call cpu_down on
OfflineTargets == {c \in cpu_online : c # 0}

\* hotplug_online_all_work_fn; up are the cores whose cpu_up succeeds
OnlineAll(up) ==
    /\ hotplug_online_all_work = "queued"
    /\ up \subseteq OnlineAllTargets
    /\ hotplug_online_all_work' = "idle"
    /\ cpu_online' = cpu_online \cup up
    /\ hotplug_unpause_work' = ScheduleDelayed(hotplug_unpause_work)
    /\ hotplug_decision_work' = ScheduleDelayed(hotplug_decision_work)
    /\ UNCHANGED << flags, hist_vars, hotplug_offline_work,
                    hotplug_online_single_work, hotplug_offline_all_work,
                    dec_locals, call_pcs, tun_vars >>

\* hotplug_offline_all_work_fn; down are the cores whose cpu_down succeeds
OfflineAll(down) ==
    /\ hotplug_offline_all_work = "queued"
    /\ down \subseteq OfflineAllTargets
    /\ hotplug_offline_all_work' = "idle"
    /\ cpu_online' = cpu_online \ down
    /\ UNCHANGED << flags, hist_vars, hotplug_decision_work,
                    hotplug_unpause_work, hotplug_offline_work,
                    hotplug_online_all_work, hotplug_online_single_work,
                    dec_locals, call_pcs, tun_vars >>

\* an online-one that returns without scheduling the decision
OnlineSingleNoRearm(ok) ==
    /\ hotplug_online_single_work = "queued"
    /\ hotplug_online_single_work' = "idle"
    /\ cpu_online' = IF OnlineSingleTargets # {} /\ ok
                     THEN cpu_online \cup {FirstCpu(OnlineSingleTargets)}
                     ELSE cpu_online
    /\ UNCHANGED << flags, hist_vars, hotplug_decision_work, hotplug_unpause_work,
                    hotplug_offline_work, hotplug_online_all_work,
                    hotplug_offline_all_work, dec_locals, call_pcs, tun_vars >>

\* hotplug_online_single_work_fn; ok is whether cpu_up succeeds
OnlineSingle(ok) ==
    /\ hotplug_online_single_work = "queued"
    /\ hotplug_online_single_work' = "idle"
    /\ cpu_online' = IF OnlineSingleTargets # {} /\ ok
                     THEN cpu_online \cup {FirstCpu(OnlineSingleTargets)}
                     ELSE cpu_online
    /\ hotplug_decision_work' = ScheduleDelayed(hotplug_decision_work)
    /\ UNCHANGED << flags, hist_vars, hotplug_unpause_work,
                    hotplug_offline_work, hotplug_online_all_work,
                    hotplug_offline_all_work, dec_locals, call_pcs, tun_vars >>

\* hotplug_offline_work_fn; ok is whether cpu_down succeeds
Offline(ok) ==
    /\ hotplug_offline_work = "queued"
    /\ cpu_online' = IF OfflineTargets # {} /\ ok
                     THEN cpu_online \ {FirstCpu(OfflineTargets)}
                     ELSE cpu_online
    /\ hotplug_offline_work' = "idle"
    /\ hotplug_decision_work' = ScheduleDelayed(hotplug_decision_work)
    /\ UNCHANGED << flags, hist_vars, hotplug_unpause_work,
                    hotplug_online_all_work, hotplug_online_single_work,
                    hotplug_offline_all_work, dec_locals, call_pcs, tun_vars >>

\* hotplug_unpause_work_fn
Unpause ==
    /\ hotplug_unpause_work = "queued"
    /\ hotplug_unpause_work' = "idle"
    /\ flags' = flags \ {HOTPLUG_PAUSED}
    /\ UNCHANGED << cpu_online, hist_vars, hotplug_decision_work,
                    hotplug_offline_work, hotplug_online_all_work,
                    hotplug_online_single_work, hotplug_offline_all_work,
                    dec_locals, call_pcs, tun_vars >>

----------------------------------------------------------------------------
(* auto_hotplug: the entry points                                          *)

\* hotplug_disable(flag) up to its first wait.  Updates of flags are taken
\* as indivisible.  hotplug_offline_work_fn is one step here, so the
\* cancel_delayed_work_sync of the offline work has nothing to wait for.
HotplugDisable(flag) ==
    /\ hd_pc = "idle"
    /\ IF HOTPLUG_DISABLED \in flags /\ ~flag
       THEN /\ flags' = flags \ {HOTPLUG_DISABLED, HOTPLUG_PAUSED}
            /\ hotplug_decision_work' = ScheduleNow(hotplug_decision_work)
            /\ UNCHANGED << hotplug_offline_work, hd_pc >>
       ELSE IF flag /\ HOTPLUG_DISABLED \notin flags
       THEN /\ flags' = flags \cup {HOTPLUG_DISABLED}
            /\ hotplug_offline_work' = CancelSync(hotplug_offline_work)
            /\ hd_pc' = "cancel_decision"
            /\ UNCHANGED hotplug_decision_work
       ELSE UNCHANGED << flags, hotplug_decision_work, hotplug_offline_work,
                         hd_pc >>
    /\ UNCHANGED << cpu_online, hist_vars, hotplug_unpause_work,
                    hotplug_online_all_work, hotplug_online_single_work,
                    hotplug_offline_all_work, dec_locals, bp_pc, es_pc,
                    tun_vars >>

\* hotplug_disable(true) from the cancel_delayed_work_sync of the decision
\* work, which waits for a running hotplug_decision_work_fn, to its return
HotplugDisableCancel ==
    /\ hd_pc = "cancel_decision"
    /\ dec_pc = "idle"
    /\ hotplug_decision_work' = CancelSync(hotplug_decision_work)
    /\ hotplug_unpause_work' = CancelSync(hotplug_unpause_work)
    /\ hd_pc' = "idle"
    /\ UNCHANGED << flags, cpu_online, hist_vars, hotplug_offline_work,
                    hotplug_online_all_work, hotplug_online_single_work,
                    hotplug_offline_all_work, dec_locals, bp_pc, es_pc,
                    tun_vars >>

\* the test of hotplug_boostpulse without HOTPLUG_DISABLED
BlockedBySuspendOnly == EARLYSUSPEND_ACTIVE \in flags

\* the test that makes hotplug_boostpulse return at once
BoostBlocked == flags \cap {EARLYSUSPEND_ACTIVE, HOTPLUG_DISABLED} # {}

\* hotplug_boostpulse.  A call that takes the early return is left at
\* "noop" until BoostReturn; any other call has returned at the end of the
\* step.
BoostPulse ==
    LET oc == Cardinality(cpu_online) IN
    /\ bp_pc = "idle"
    /\ IF BoostBlocked
       THEN /\ bp_pc' = "noop"
            /\ UNCHANGED << flags, work_vars >>
       ELSE /\ bp_pc' = "idle"
            /\ IF BOOSTPULSE_ACTIVE \notin flags /\ max_online_cpus > oc
               THEN IF oc < 2
                    THEN /\ hotplug_offline_work' =
                                CancelSync(hotplug_offline_work)
                         /\ flags' = flags \cup {BOOSTPULSE_ACTIVE,
                                                 HOTPLUG_PAUSED}
                         /\ hotplug_online_single_work' =
                                ScheduleNow(hotplug_online_single_work)
                         /\ hotplug_unpause_work' =
                                ScheduleDelayed(hotplug_unpause_work)
                         /\ UNCHANGED << hotplug_decision_work,
                                         hotplug_online_all_work,
                                         hotplug_offline_all_work >>
                    ELSE IF Pending(hotplug_offline_work)
                    THEN /\ hotplug_offline_work' =
                                CancelDelayed(hotplug_offline_work)
                         /\ flags' = flags \cup {BOOSTPULSE_ACTIVE,
                                                 HOTPLUG_PAUSED}
                         /\ hotplug_unpause_work' =
                                ScheduleDelayed(hotplug_unpause_work)
                         /\ hotplug_decision_work' =
                                ScheduleDelayed(hotplug_decision_work)
                         /\ UNCHANGED << hotplug_online_all_work,
                                         hotplug_online_single_work,
                                         hotplug_offline_all_work >>
                    ELSE /\ flags' = flags \cup {BOOSTPULSE_ACTIVE}
                         /\ UNCHANGED work_vars
               ELSE UNCHANGED << flags, work_vars >>
    /\ UNCHANGED << cpu_online, hist_vars, dec_locals, hd_pc, es_pc, tun_vars >>

\* the early return of hotplug_boostpulse
BoostReturn ==
    /\ bp_pc = "noop"
    /\ bp_pc' = "idle"
    /\ UNCHANGED << flags, cpu_online, hist_vars, work_vars, dec_locals,
                    hd_pc, es_pc, tun_vars >>

\* auto_hotplug_early_suspend up to its first wait
EarlySuspend ==
    /\ es_pc = "idle"
    /\ EARLYSUSPEND_ACTIVE \notin flags
    /\ flags' = flags \cup {EARLYSUSPEND_ACTIVE}
    /\ hotplug_offline_work' = CancelSync(hotplug_offline_work)
    /\ es_pc' = "cancel_decision"
    /\ UNCHANGED << cpu_online, hist_vars, hotplug_decision_work,
                    hotplug_unpause_work, hotplug_online_all_work,
                    hotplug_online_single_work, hotplug_offline_all_work,
                    dec_locals, hd_pc, bp_pc, tun_vars >>

\* auto_hotplug_early_suspend from the cancel_delayed_work_sync of the
\* decision work to its return
EarlySuspendCancel ==
    /\ es_pc = "cancel_decision"
    /\ dec_pc = "idle"
    /\ hotplug_decision_work' = CancelSync(hotplug_decision_work)
    /\ hotplug_offline_all_work' =
            IF Cardinality(cpu_online) > 1
            THEN ScheduleNow(hotplug_offline_all_work)
            ELSE hotplug_offline_all_work
    /\ es_pc' = "idle"
    /\ UNCHANGED << flags, cpu_online, hist_vars, hotplug_unpause_work,
                    hotplug_offline_work, hotplug_online_all_work,
                    hotplug_online_single_work, dec_locals, hd_pc, bp_pc,
                    tun_vars >>

\* the load late resume writes to the first slots of the history
RESUME_LOAD == 500

\* the number of slots late resume writes, the lowest accepted
\* sampling_periods
ResumeSlots == MinSamplingPeriods

\* auto_hotplug_late_resume
LateResume ==
    /\ es_pc = "idle"
    /\ EARLYSUSPEND_ACTIVE \in flags
    /\ ResumeSlots <= Len(history)
    /\ flags' = flags \ {EARLYSUSPEND_ACTIVE}
    /\ history' = [k \in 1 .. Len(history) |->
                      IF k <= ResumeSlots THEN RESUME_LOAD ELSE history[k]]
    /\ hotplug_decision_work' = ScheduleDelayed(hotplug_decision_work)
    /\ UNCHANGED << cpu_online, index, sampling_periods, live_sampling_periods,
                    index_max_value, hotplug_unpause_work, hotplug_offline_work,
                    hotplug_online_all_work, hotplug_online_single_work,
                    hotplug_offline_all_work, dec_locals, call_pcs, tun_vars >>

\* set_sampling_periods
SetSamplingPeriods(num) ==
    /\ IF num > MaxSamplingPeriods \/ num < MinSamplingPeriods
       THEN /\ param_ret' = EINVAL
            /\ UNCHANGED sampling_periods
       ELSE /\ param_ret' = 0
            /\ sampling_periods' = num
    /\ UNCHANGED << flags, cpu_online, history, index, live_sampling_periods,
                    index_max_value, work_vars, dec_locals, call_pcs, tun_vars >>

----------------------------------------------------------------------------
(* The governor left out of a specification of the limiter alone           *)

HotplugIdle ==
    /\ flags = {}
    /\ cpu_online = Cpus
    /\ history = << >>
    /\ index = 0
    /\ sampling_periods = 0
    /\ live_sampling_periods = 0
    /\ index_max_value = 0
    /\ hotplug_decision_work = "idle"
    /\ hotplug_unpause_work = "idle"
    /\ hotplug_offline_work = "idle"
    /\ hotplug_online_all_work = "idle"
    /\ hotplug_online_single_work = "idle"
    /\ hotplug_offline_all_work = "idle"
    /\ dec_pc = "idle"
    /\ online_cpus = 0
    /\ avg_running = 0
    /\ hd_pc = "idle"
    /\ bp_pc = "idle"
    /\ es_pc = "idle"
    /\ enable_all_load_threshold = 0
    /\ enable_load_threshold = 0
    /\ disable_load_threshold = 0
    /\ min_online_cpus = 0
    /\ max_online_cpus = 0
    /\ min_sampling_rate = 0

----------------------------------------------------------------------------
(* Thermal limiter: specification                                          *)

\* poll_ms comes from the device tree (qcom,poll-ms); the specifications that
\* do not look at the poll delay take one value of it and leave the delay out
BasePollMs == 1000

PollFixed == poll_ms = BasePollMs /\ poll_delay = 0

\* no hotplug_unpause_work_fn is between its load and its store of flags;
\* a loaded byte is held as << its set of bits >>
NoLoad == << >>

\* the state msm_thermal_init leaves, for every platform configuration
\* the limiter's variables as their initialisers and msm_thermal_init leave them
InitLimiter ==
    /\ enabled = TRUE
    /\ limited_max_freq = MSM_CPUFREQ_NO_LIMIT
    /\ limit_idx = 0
    /\ limit_idx_low = 0
    /\ min_freq_index = 0
    /\ limit_idx_high = 0
    /\ limit_init = FALSE
    /\ throttle_on = FALSE
    /\ throttle_temp = DEFAULT_THROTTLE_TEMP(variant)
    /\ check_temp_work = "queued"
    /\ ct_pc = "idle"
    /\ temp = 0
    /\ max_freq = 0
    /\ poll_faster = FALSE
    /\ cpu_max_freq = [c \in Cpus |-> MSM_CPUFREQ_NO_LIMIT]
    /\ poweroff_calls = 0
    /\ se_pc = "idle"

InitThermal ==
    /\ variant \in Variants
    /\ table \in TableLens(variant)
    /\ freq_step \in FreqSteps
    /\ temp_hysteresis_degC \in Hystereses
    /\ InitLimiter

\* a check_temp with any sensor outcome
CheckTempAny == \E t \in Temps, ok \in BOOLEAN : CheckTempDecide(t, ok)

InitT == InitThermal /\ PollFixed /\ unpause_reg = NoLoad /\ reads = << >> /\ HotplugIdle /\ samples = << >>
            /\ param_ret = 0

NextT ==
    \/ CheckTempAny /\ UNCHANGED << poll_vars, unpause_reg, reads, hotplug_vars, samples, param_ret >>
    \/ CheckTempApply(Cpus) /\ UNCHANGED << poll_vars, unpause_reg, reads, hotplug_vars, samples, param_ret >>
    \/ CheckTempReschedule /\ UNCHANGED << poll_vars, unpause_reg, reads, hotplug_vars, samples, param_ret >>
    \/ CheckTempSchedule /\ UNCHANGED << poll_vars, unpause_reg, reads, hotplug_vars, samples, param_ret >>
    \/ CheckTempTimer /\ UNCHANGED << poll_vars, unpause_reg, reads, hotplug_vars, samples, param_ret >>
    \/ (\E v \in BOOLEAN : SetEnabled(v)) /\ UNCHANGED << poll_vars, unpause_reg, reads, hotplug_vars, samples, param_ret >>
    \/ DisableCancel /\ UNCHANGED << poll_vars, unpause_reg, reads, hotplug_vars, samples, param_ret >>
    \/ DisableFlush /\ UNCHANGED << poll_vars, unpause_reg, reads, hotplug_vars, samples, param_ret >>
    \/ DisableReset(Cpus) /\ UNCHANGED << poll_vars, unpause_reg, reads, hotplug_vars, samples, param_ret >>
    \/ (\E num \in ThrottleWrites : SetThrottleTemp(num)) /\ UNCHANGED << poll_vars, unpause_reg, reads, hotplug_vars, samples >>

SpecThermal == InitT /\ [][NextT]_vars

----------------------------------------------------------------------------
(* Thermal limiter: a sensor that alternates around throttle_temp          *)

MaxReads == 4

\* the n-th reading (from 0) of the oscillating sequence
OscTemp(n) == IF n % 2 = 0 THEN throttle_temp + 1 ELSE throttle_temp - 1

CheckTempOsc ==
    /\ Len(reads) < MaxReads
    /\ CheckTempDecide(OscTemp(Len(reads)), TRUE)
    /\ reads' = Append(reads, OscTemp(Len(reads)))
    /\ UNCHANGED << poll_vars, unpause_reg, hotplug_vars, samples, param_ret >>

NextOsc ==
    \/ CheckTempOsc
    \/ CheckTempApply(Cpus) /\ UNCHANGED << poll_vars, unpause_reg, reads, hotplug_vars, samples, param_ret >>
    \/ CheckTempReschedule /\ UNCHANGED << poll_vars, unpause_reg, reads, hotplug_vars, samples, param_ret >>
    \/ CheckTempSchedule /\ UNCHANGED << poll_vars, unpause_reg, reads, hotplug_vars, samples, param_ret >>
    \/ CheckTempTimer /\ UNCHANGED << poll_vars, unpause_reg, reads, hotplug_vars, samples, param_ret >>

SpecOsc == InitT /\ [][NextOsc]_vars

----------------------------------------------------------------------------
(* auto_hotplug: specifications                                            *)

\* The limiter left out of a specification of the governor alone
ThermalIdle ==
    /\ variant = "shutdown"
    /\ table = NULL
    /\ freq_step = 1
    /\ temp_hysteresis_degC = 2
    /\ enabled = FALSE
    /\ limited_max_freq = MSM_CPUFREQ_NO_LIMIT
    /\ limit_idx = 0
    /\ limit_idx_low = 0
    /\ min_freq_index = 0
    /\ limit_idx_high = 0
    /\ limit_init = FALSE
    /\ throttle_on = FALSE
    /\ throttle_temp = DEFAULT_THROTTLE_TEMP(variant)
    /\ check_temp_work = "idle"
    /\ ct_pc = "idle"
    /\ temp = 0
    /\ max_freq = 0
    /\ poll_faster = FALSE
    /\ cpu_max_freq = [c \in Cpus |-> MSM_CPUFREQ_NO_LIMIT]
    /\ poweroff_calls = 0
    /\ se_pc = "idle"
    /\ PollFixed
    /\ unpause_reg = NoLoad
    /\ reads = << >>

\* The state auto_hotplug_init leaves, all cores being online at the late
\* initcall; kmalloc does not initialise the history
InitHotplug ==
    /\ flags = {HOTPLUG_PAUSED}
    /\ cpu_online = Cpus
    /\ history \in [1 .. DefaultSamplingPeriods -> Samples]
    /\ index = 0
    /\ sampling_periods = DefaultSamplingPeriods
    /\ live_sampling_periods = DefaultSamplingPeriods
    /\ index_max_value = DefaultSamplingPeriods - 1
    /\ hotplug_decision_work = "timer"
    /\ hotplug_unpause_work = "timer"
    /\ hotplug_offline_work = "idle"
    /\ hotplug_online_all_work = "idle"
    /\ hotplug_online_single_work = "idle"
    /\ hotplug_offline_all_work = "idle"
    /\ dec_pc = "idle"
    /\ online_cpus = 0
    /\ avg_running = 0
    /\ hd_pc = "idle"
    /\ bp_pc = "idle"
    /\ es_pc = "idle"
    /\ enable_all_load_threshold = 100 * CPUS_AVAILABLE
    /\ enable_load_threshold = DEFAULT_ENABLE_LOAD_THRESHOLD
    /\ disable_load_threshold = DEFAULT_DISABLE_LOAD_THRESHOLD
    /\ min_online_cpus = 1
    /\ max_online_cpus = CPUS_AVAILABLE
    /\ min_sampling_rate = DEFAULT_MIN_SAMPLING_RATE

InitH == ThermalIdle /\ InitHotplug /\ samples = << >> /\ param_ret = 0

\* a run of the sampler; sampling_periods is not written in this
\* specification, so there is no krealloc and no read outside the buffer
DecisionAny == \E running \in Samples : DecisionSample(running, TRUE, 0)

\* what a step of the governor leaves alone in this specification
limiter_vars == << thermal_vars, poll_vars, unpause_reg, reads, samples, param_ret >>

\* in this specification the cpu_up calls of online-all, and the cpu_down
\* calls of offline-all, succeed on every core or fail on every core
NextH ==
    \/ DecisionTimer /\ UNCHANGED limiter_vars
    \/ OfflineTimer /\ UNCHANGED limiter_vars
    \/ UnpauseTimer /\ UNCHANGED limiter_vars
    \/ DecisionAny /\ UNCHANGED limiter_vars
    \/ DecisionDecide /\ UNCHANGED limiter_vars
    \/ (\E up \in {{}, OnlineAllTargets} : OnlineAll(up)) /\ UNCHANGED limiter_vars
    \/ (\E down \in {{}, OfflineAllTargets} : OfflineAll(down))
            /\ UNCHANGED limiter_vars
    \/ (\E ok \in BOOLEAN : OnlineSingle(ok)) /\ UNCHANGED limiter_vars
    \/ (\E ok \in BOOLEAN : Offline(ok)) /\ UNCHANGED limiter_vars
    \/ Unpause /\ UNCHANGED limiter_vars
    \/ (\E flag \in BOOLEAN : HotplugDisable(flag)) /\ UNCHANGED limiter_vars
    \/ HotplugDisableCancel /\ UNCHANGED limiter_vars
    \/ BoostPulse /\ UNCHANGED limiter_vars
    \/ BoostReturn /\ UNCHANGED limiter_vars
    \/ EarlySuspend /\ UNCHANGED limiter_vars
    \/ EarlySuspendCancel /\ UNCHANGED limiter_vars
    \/ LateResume /\ UNCHANGED limiter_vars

SpecHotplug == InitH /\ [][NextH]_vars

----------------------------------------------------------------------------
(* auto_hotplug: the sampler alone, with a record of what it stored        *)

MaxSamples == 5

\* sampling_periods values written to the parameter
PeriodWrites == (MinSamplingPeriods - 1) .. (MaxSamplingPeriods + 1)

\* a run of the sampler, recorded if it stored its sample
DecisionStore ==
    /\ Len(samples) < MaxSamples
    /\ \E running \in Samples, ok \in BOOLEAN, g \in Samples :
          /\ DecisionSample(running, ok, g)
          /\ samples' = IF dec_pc' = "decide" THEN Append(samples, running)
                        ELSE samples

NextHistory ==
    \/ DecisionTimer /\ UNCHANGED limiter_vars
    \/ DecisionStore /\ UNCHANGED << thermal_vars, poll_vars, unpause_reg, reads, param_ret >>
    \/ DecisionDecide /\ UNCHANGED limiter_vars
    \/ (\E num \in PeriodWrites : SetSamplingPeriods(num))
            /\ UNCHANGED << thermal_vars, poll_vars, unpause_reg, reads, samples >>

SpecHistory == InitH /\ [][NextHistory]_vars

----------------------------------------------------------------------------
(* Thermal limiter: properties                                             *)

\* C2: orderly_poweroff is called at most once over any execution.
ShutdownAtMostOnce == poweroff_calls <= 1

\* C3: once the frequency table is resolved, limit_idx lies between the
\* lowest index of the build (limit_idx_low, min_freq_index) and
\* limit_idx_high after every check_temp.
IndexInRange ==
    (limit_init /\ ct_pc # "bug") =>
        IF variant = "shutdown"
        THEN limit_idx_low <= limit_idx /\ limit_idx <= limit_idx_high
        ELSE ULe(min_freq_index, limit_idx) /\ ULe(limit_idx, limit_idx_high)

OscIndexFixedAfterFirst ==
    [][ Len(reads) >= 1 => limit_idx' = limit_idx ]_vars

\* C7 amended: in the shutdown build, after the first sample of the
\* oscillating sequence, limit_idx never rises: a sample at throttle_temp - 1
\* leaves it unchanged, a sample at throttle_temp + 1 lowers it by freq_step,
\* not below limit_idx_low.
OscIndexNeverRises ==
    [][ (variant = "shutdown" /\ Len(reads) >= 1 /\ Len(reads') > Len(reads))
        => IF temp' = throttle_temp - 1
           THEN limit_idx' = limit_idx
           ELSE /\ limit_idx' <= limit_idx
                /\ limit_idx' >= limit_idx_low
                /\ limit_idx' # limit_idx_low => limit_idx' = limit_idx - freq_step
      ]_vars

\* C7 witness: the shutdown build after the third sample of the sequence,
\* stepped down twice.
OscSteppedTwice ==
    /\ variant = "shutdown"
    /\ Len(reads) = 3
    /\ limit_init
    /\ freq_step = 1
    /\ limit_idx = limit_idx_high - 2

\* C10: after disable_msm_thermal has returned (enabled cleared through
\* set_enabled), no check_temp is pending or running and every core's ceiling
\* is "no limit".
ThermalDisableSynchronous ==
    (~enabled /\ se_pc = "idle" /\ poweroff_calls = 0) =>
        /\ check_temp_work = "idle"
        /\ ct_pc = "idle"
        /\ \A c \in Cpus : cpu_max_freq[c] = MSM_CPUFREQ_NO_LIMIT

----------------------------------------------------------------------------
(* auto_hotplug: properties                                                *)

\* hotplug_disable(true) has returned and the flag is still set
DisabledReturned == HOTPLUG_DISABLED \in flags /\ hd_pc = "idle"

\* C1: once hotplug_disable(true) has returned, and until the governor is
\* enabled again, no hotplug task scheduled before the call brings a core
\* online.  While HOTPLUG_DISABLED is set neither the decision function nor
\* hotplug_boostpulse schedules an online task, so a core that comes online
\* comes online by a task scheduled before the call.
DisableCancelsOnline ==
    [][ (DisabledReturned /\ HOTPLUG_DISABLED \in flags')
            => cpu_online' \subseteq cpu_online ]_vars

\* the slots 0 .. n - 1 of the history, each counted once
RECURSIVE SumSlots(_, _)
SumSlots(h, n) == IF n = 0 THEN 0 ELSE h[n] + SumSlots(h, n - 1)

\* the sum of the last n elements of a sequence
RECURSIVE SumLast(_, _)
SumLast(q, n) ==
    IF n = 0 THEN 0 ELSE q[Len(q)] + SumLast(SubSeq(q, 1, Len(q) - 1), n - 1)

\* C4: once N = live_sampling_periods samples have been stored in a buffer
\* of N slots, the average the decision function computes is the sum of the
\* N most recent samples, each slot counted once, divided by N.
AverageOfLastN ==
    (/\ dec_pc = "decide"
     /\ Len(history) = live_sampling_periods
     /\ sampling_periods = live_sampling_periods
     /\ Len(samples) >= live_sampling_periods)
        => /\ avg_running = SumLast(samples, live_sampling_periods)
                                \div live_sampling_periods
           /\ avg_running = SumSlots(history, live_sampling_periods)
                                \div live_sampling_periods

\* C5: after sampling_periods changed, the write cursor and the recomputed
\* index_max_value address slots of the allocated history, and the cursor
\* is at most index_max_value.
HistoryIndexInBuffer ==
    /\ index < Len(history)
    /\ 0 <= index_max_value /\ index_max_value < Len(history)
    /\ index <= index_max_value

\* C8: core 0 is online in every reachable state.
Core0Online == 0 \in cpu_online

\* every core other than 0 was taken offline, by hotplug_offline_work_fn or
\* hotplug_offline_all_work_fn, and the governor is about to sample again
Core0AloneOnline ==
    /\ cpu_online = {0}
    /\ hotplug_offline_work = "idle"
    /\ hotplug_offline_all_work = "idle"
    /\ EARLYSUSPEND_ACTIVE \notin flags
    /\ hotplug_decision_work = "timer"

\* C9: a hotplug_boostpulse called while HOTPLUG_DISABLED or
\* EARLYSUSPEND_ACTIVE is set changes no flag, cancels no work and schedules
\* none.
BoostpulseNoopWhenBlocked ==
    [][ (/\ HOTPLUG_DISABLED \in flags \/ EARLYSUSPEND_ACTIVE \in flags
         /\ BoostPulse)
            => (flags' = flags /\ work_vars' = work_vars) ]_vars

\* a hotplug_boostpulse that found HOTPLUG_DISABLED set has taken the early
\* return, in a state where it would otherwise have onlined a core
BoostpulseBlocked ==
    /\ bp_pc = "noop"
    /\ HOTPLUG_DISABLED \in flags
    /\ BOOSTPULSE_ACTIVE \notin flags
    /\ Cardinality(cpu_online) < max_online_cpus

----------------------------------------------------------------------------
(* Thermal limiter: shutdown, table resolution and sensor failure          *)

\* C11: a check_temp of the shutdown build that reads a temperature at or
\* above SHUTDOWN_TEMP asks for the frequency of the lowest table index as
\* the ceiling of every core.
ShutdownClampsToMinimum ==
    [][ (variant = "shutdown" /\ poweroff_calls' > poweroff_calls)
            => max_freq' = TableFreq(limit_idx_low') ]_vars

----------------------------------------------------------------------------
(* Module parameters                                                       *)

\* what the setters of the governor leave alone
governor_state == << flags, cpu_online, hist_vars, work_vars, dec_locals,
                     call_pcs >>

\* a range test that forgets the lower end
AboveOnly(num, lo, hi) == num > hi

\* the range test of the setters: num > hi || num < lo
OutOfRange(num, lo, hi) == num > hi \/ num < lo

\* set_enable_all_load_threshold
SetEnableAllLoadThreshold(num) ==
    /\ IF OutOfRange(num, 270, 550)
       THEN param_ret' = EINVAL /\ UNCHANGED enable_all_load_threshold
       ELSE param_ret' = 0 /\ enable_all_load_threshold' = num
    /\ UNCHANGED << governor_state, enable_load_threshold,
                    disable_load_threshold, min_online_cpus, max_online_cpus,
                    min_sampling_rate >>

\* set_enable_load_threshold
SetEnableLoadThreshold(num) ==
    /\ IF OutOfRange(num, 130, 250)
       THEN param_ret' = EINVAL /\ UNCHANGED enable_load_threshold
       ELSE param_ret' = 0 /\ enable_load_threshold' = num
    /\ UNCHANGED << governor_state, enable_all_load_threshold,
                    disable_load_threshold, min_online_cpus, max_online_cpus,
                    min_sampling_rate >>

\* set_disable_load_threshold
SetDisableLoadThreshold(num) ==
    /\ IF OutOfRange(num, 40, 125)
       THEN param_ret' = EINVAL /\ UNCHANGED disable_load_threshold
       ELSE param_ret' = 0 /\ disable_load_threshold' = num
    /\ UNCHANGED << governor_state, enable_all_load_threshold,
                    enable_load_threshold, min_online_cpus, max_online_cpus,
                    min_sampling_rate >>

\* set_min_sampling_rate
SetMinSamplingRate(num) ==
    /\ IF OutOfRange(num, 10, 50)
       THEN param_ret' = EINVAL /\ UNCHANGED min_sampling_rate
       ELSE param_ret' = 0 /\ min_sampling_rate' = num
    /\ UNCHANGED << governor_state, enable_all_load_threshold,
                    enable_load_threshold, disable_load_threshold,
                    min_online_cpus, max_online_cpus >>

\* min_online_cpus_set: param_set_int stores the value, an out-of-range one
\* is then replaced by 1; the return value is that of param_set_int
MinOnlineCpusSet(num) ==
    /\ min_online_cpus' = IF num < 1 \/ num > CPUS_AVAILABLE THEN 1 ELSE num
    /\ param_ret' = 0
    /\ UNCHANGED << governor_state, enable_all_load_threshold,
                    enable_load_threshold, disable_load_threshold,
                    max_online_cpus, min_sampling_rate >>

\* max_online_cpus_set: an out-of-range value is replaced by CPUS_AVAILABLE
MaxOnlineCpusSet(num) ==
    /\ max_online_cpus' = IF num < 1 \/ num > CPUS_AVAILABLE
                          THEN CPUS_AVAILABLE ELSE num
    /\ param_ret' = 0
    /\ UNCHANGED << governor_state, enable_all_load_threshold,
                    enable_load_threshold, disable_load_threshold,
                    min_online_cpus, min_sampling_rate >>

\* set_min_freq_index, a parameter of the throttle_on build only
SetMinFreqIndex(num) ==
    /\ variant = "throttle_on"
    /\ ct_pc # "bug"
    /\ IF OutOfRange(num, 4, 8)
       THEN param_ret' = EINVAL /\ UNCHANGED min_freq_index
       ELSE param_ret' = 0 /\ min_freq_index' = num
    /\ UNCHANGED << variant, enabled, limited_max_freq, limit_idx, limit_idx_low,
                    limit_idx_high, table, limit_init, throttle_on, throttle_temp,
                    temp_hysteresis_degC, freq_step, check_temp_work, ct_pc, temp,
                    max_freq, poll_faster, cpu_max_freq, poweroff_calls, se_pc >>

\* values written to the parameters: the accepted upper end of each range
\* and the first value outside it on either side
EnableAllWrites == {269, 550, 551}
EnableWrites == {129, 250, 251}
DisableWrites == {39, 125, 126}
SamplingRateWrites == {9, 50, 51}
OnlineCpusWrites == {0, 1, CPUS_AVAILABLE, CPUS_AVAILABLE + 1}
MinFreqIndexWrites == {3, 8, 9}

\* Both controllers after their initialisation, nothing throttled yet
InitP ==
    /\ InitThermal
    /\ table = NULL
    /\ freq_step = 1
    /\ temp_hysteresis_degC = 2
    /\ PollFixed
    /\ unpause_reg = NoLoad
    /\ reads = << >>
    /\ InitHotplug
    /\ history = [k \in 1 .. DefaultSamplingPeriods |-> 0]
    /\ samples = << >>
    /\ param_ret = 0

\* what a setter of the governor leaves alone in this specification
thermal_rest == << thermal_vars, poll_vars, unpause_reg, reads, samples >>

\* what a setter of the limiter leaves alone in this specification
hotplug_rest == << poll_vars, unpause_reg, reads, hotplug_vars, samples >>

NextP ==
    \/ (\E num \in EnableAllWrites : SetEnableAllLoadThreshold(num))
            /\ UNCHANGED thermal_rest
    \/ (\E num \in EnableWrites : SetEnableLoadThreshold(num))
            /\ UNCHANGED thermal_rest
    \/ (\E num \in DisableWrites : SetDisableLoadThreshold(num))
            /\ UNCHANGED thermal_rest
    \/ (\E num \in SamplingRateWrites : SetMinSamplingRate(num))
            /\ UNCHANGED thermal_rest
    \/ (\E num \in PeriodWrites : SetSamplingPeriods(num))
            /\ UNCHANGED thermal_rest
    \/ (\E num \in OnlineCpusWrites : MinOnlineCpusSet(num))
            /\ UNCHANGED thermal_rest
    \/ (\E num \in OnlineCpusWrites : MaxOnlineCpusSet(num))
            /\ UNCHANGED thermal_rest
    \/ (\E num \in ThrottleWrites : SetThrottleTemp(num))
            /\ UNCHANGED hotplug_rest
    \/ (\E num \in MinFreqIndexWrites : SetMinFreqIndex(num))
            /\ UNCHANGED hotplug_rest

SpecParams == InitP /\ [][NextP]_vars

\* a write outside the range of one of the seven range-checked parameters
\* returns -EINVAL and leaves the parameter as it was
RangeCheckedRejected ==
    /\ \A num \in EnableAllWrites :
          (SetEnableAllLoadThreshold(num) /\ (num < 270 \/ num > 550))
            => (param_ret' = EINVAL /\ UNCHANGED enable_all_load_threshold)
    /\ \A num \in EnableWrites :
          (SetEnableLoadThreshold(num) /\ (num < 130 \/ num > 250))
            => (param_ret' = EINVAL /\ UNCHANGED enable_load_threshold)
    /\ \A num \in DisableWrites :
          (SetDisableLoadThreshold(num) /\ (num < 40 \/ num > 125))
            => (param_ret' = EINVAL /\ UNCHANGED disable_load_threshold)
    /\ \A num \in SamplingRateWrites :
          (SetMinSamplingRate(num) /\ (num < 10 \/ num > 50))
            => (param_ret' = EINVAL /\ UNCHANGED min_sampling_rate)
    /\ \A num \in PeriodWrites :
          (SetSamplingPeriods(num)
             /\ (num < MinSamplingPeriods \/ num > MaxSamplingPeriods))
            => (param_ret' = EINVAL /\ UNCHANGED sampling_periods)
    /\ \A num \in ThrottleWrites :
          (SetThrottleTemp(num)
             /\ (num < COOL_TEMP(variant) \/ num > MAX_THROTTLE_TEMP(variant)))
            => (param_ret' = EINVAL /\ UNCHANGED throttle_temp)
    /\ \A num \in MinFreqIndexWrites :
          (SetMinFreqIndex(num) /\ (num < 4 \/ num > 8))
            => (param_ret' = EINVAL /\ UNCHANGED min_freq_index)

\* a write of min_online_cpus or max_online_cpus outside 1..CPUS_AVAILABLE
\* returns -EINVAL and leaves the parameter as it was
OnlineCpusRejected ==
    /\ \A num \in OnlineCpusWrites :
          (MinOnlineCpusSet(num) /\ (num < 1 \/ num > CPUS_AVAILABLE))
            => (param_ret' = EINVAL /\ UNCHANGED min_online_cpus)
    /\ \A num \in OnlineCpusWrites :
          (MaxOnlineCpusSet(num) /\ (num < 1 \/ num > CPUS_AVAILABLE))
            => (param_ret' = EINVAL /\ UNCHANGED max_online_cpus)

\* a write of min_online_cpus or max_online_cpus outside 1..CPUS_AVAILABLE
\* returns 0 and stores the default, 1 or CPUS_AVAILABLE
OnlineCpusDefaulted ==
    /\ \A num \in OnlineCpusWrites :
          (MinOnlineCpusSet(num) /\ (num < 1 \/ num > CPUS_AVAILABLE))
            => (param_ret' = 0 /\ min_online_cpus' = 1)
    /\ \A num \in OnlineCpusWrites :
          (MaxOnlineCpusSet(num) /\ (num < 1 \/ num > CPUS_AVAILABLE))
            => (param_ret' = 0 /\ max_online_cpus' = CPUS_AVAILABLE)

\* C12 as stated: a write outside the range of any of the nine parameters
\* returns a validation error and leaves the stored value.
AllWritesRejected == [][RangeCheckedRejected /\ OnlineCpusRejected]_vars

\* C12 amended: the seven range-checked parameters refuse a write outside
\* their range with -EINVAL and keep their value; min_online_cpus and
\* max_online_cpus accept it, return 0 and store 1, respectively
\* CPUS_AVAILABLE.
RangeWritesRejectedOrDefaulted ==
    [][RangeCheckedRejected /\ OnlineCpusDefaulted]_vars

\* a write was refused after another one had been accepted, and
\* max_online_cpus had been lowered before
WriteRefused ==
    /\ param_ret = EINVAL
    /\ enable_all_load_threshold = 550
    /\ max_online_cpus = 1


----------------------------------------------------------------------------
(* Thermal limiter: a cpufreq table that is registered after the first poll *)

\* cpufreq_frequency_get_table(0) starts to return a table of n entries: the
\* cpufreq driver has registered it
CpufreqTableRegistered(n) ==
    /\ table = NULL
    /\ table' = n
    /\ UNCHANGED << variant, enabled, limited_max_freq, limit_idx, limit_idx_low,
                    min_freq_index, limit_idx_high, limit_init, throttle_on,
                    throttle_temp, temp_hysteresis_degC, freq_step,
                    check_temp_work, ct_pc, temp, max_freq, poll_faster,
                    cpu_max_freq, poweroff_calls, se_pc >>

\* a check_temp with any sensor outcome; reads keeps the temperature of the
\* first check_temp whose msm_thermal_get_freq_table failed
CheckTempTable ==
    \E t \in Temps, ok \in BOOLEAN :
        /\ CheckTempDecide(t, ok)
        /\ reads' = IF ok /\ ~limit_init /\ table = NULL /\ reads = << >>
                    THEN << t >> ELSE reads

InitTable ==
    /\ InitT
    /\ table = NULL
    /\ freq_step = 1
    /\ temp_hysteresis_degC = 2

NextTable ==
    \/ CheckTempTable /\ UNCHANGED << poll_vars, unpause_reg, hotplug_vars, samples, param_ret >>
    \/ CheckTempApply(Cpus) /\ UNCHANGED << poll_vars, unpause_reg, reads, hotplug_vars, samples, param_ret >>
    \/ CheckTempReschedule /\ UNCHANGED << poll_vars, unpause_reg, reads, hotplug_vars, samples, param_ret >>
    \/ CheckTempSchedule /\ UNCHANGED << poll_vars, unpause_reg, reads, hotplug_vars, samples, param_ret >>
    \/ CheckTempTimer /\ UNCHANGED << poll_vars, unpause_reg, reads, hotplug_vars, samples, param_ret >>
    \/ (\E n \in TableLens(variant) \ {NULL} : CpufreqTableRegistered(n))
           /\ UNCHANGED << poll_vars, unpause_reg, reads, hotplug_vars, samples, param_ret >>

SpecTable == InitTable /\ [][NextTable]_vars

\* C13 as stated: once a check_temp that read a temperature could not resolve
\* the frequency table, no later step resolves it, moves limit_idx or changes
\* the applied ceiling
NeverResolvedAfterFailure ==
    [][ reads # << >>
            => /\ limit_init' = limit_init
               /\ limit_idx' = limit_idx
               /\ limited_max_freq' = limited_max_freq ]_vars

\* C13 amended: a check_temp that read a temperature while the table was not
\* yet initialised calls msm_thermal_get_freq_table. If no table is there, the
\* call leaves limit_init, limit_idx and the ceiling alone and goes to
\* reschedule; if the table is there, whether or not an earlier call failed,
\* limit_idx_high becomes the last index and limit_init is set
TableResolvedPerCycle ==
    [][ (ct_pc = "idle" /\ ct_pc' # "idle" /\ ~limit_init /\ temp' # 0)
            => IF table = NULL
               THEN /\ ~limit_init'
                    /\ limit_idx' = limit_idx
                    /\ limited_max_freq' = limited_max_freq
                    /\ ct_pc' = "reschedule"
               ELSE /\ limit_idx_high' = table - 1
                    /\ (ct_pc' # "bug" => limit_init') ]_vars

\* the table was resolved by a check_temp later than one that had failed
TableResolvedLater == reads # << >> /\ limit_init /\ limit_idx_high = table - 1


----------------------------------------------------------------------------
(* Thermal limiter: a failed sensor read                                    *)

\* C14: a check_temp whose tsens_get_temp fails leaves limit_idx, the applied
\* ceiling limited_max_freq and every core's limit unchanged and goes to
\* reschedule without passing setmaxfreq; from reschedule it schedules the
\* next check_temp whenever the limiter is enabled
ReadFailureSkipsLimiting ==
    [][ /\ (\E t \in Temps : CheckTempDecide(t, FALSE))
            => /\ limit_idx' = limit_idx
               /\ limited_max_freq' = limited_max_freq
               /\ cpu_max_freq' = cpu_max_freq
               /\ ct_pc' = "reschedule"
        /\ (ct_pc = "reschedule" /\ temp = 0 /\ ct_pc' # ct_pc)
            => /\ ct_pc' = (IF enabled THEN "schedule" ELSE "idle")
               /\ limited_max_freq' = limited_max_freq
               /\ cpu_max_freq' = cpu_max_freq
        /\ (ct_pc = "schedule" /\ ct_pc' # ct_pc)
            => Pending(check_temp_work') ]_vars

\* a read failed while the limiter was throttling
ReadFailedWhileThrottled ==
    /\ ct_pc = "reschedule"
    /\ temp = 0
    /\ limit_init
    /\ limit_idx < limit_idx_high
    /\ limited_max_freq # MSM_CPUFREQ_NO_LIMIT
    /\ enabled


----------------------------------------------------------------------------
(* Thermal limiter: the sensor reports 50, 66, 68, 62, 44                   *)

\* the temperatures tsens_get_temp reports to successive check_temp calls
ScenarioTemps == << 50, 66, 68, 62, 44 >>

\* the next check_temp: its read either fails, or succeeds with the next
\* temperature of the sequence, which reads then records
CheckTempScenario ==
    \/ /\ Len(reads) < Len(ScenarioTemps)
       /\ CheckTempDecide(ScenarioTemps[Len(reads) + 1], TRUE)
       /\ reads' = Append(reads, ScenarioTemps[Len(reads) + 1])
    \/ /\ CheckTempDecide(0, FALSE)
       /\ reads' = reads

\* shutdown build, throttle_temp = 64, hysteresis 4, freq_step 1 and a table
\* of the five indices 0 .. 4
InitScenario ==
    /\ variant = "shutdown"
    /\ table = 5
    /\ freq_step = 1
    /\ temp_hysteresis_degC = 4
    /\ InitLimiter
    /\ throttle_temp = 64
    /\ PollFixed
    /\ unpause_reg = NoLoad
    /\ reads = << >>
    /\ HotplugIdle
    /\ samples = << >>
    /\ param_ret = 0

NextScenario ==
    \/ CheckTempScenario /\ UNCHANGED << poll_vars, unpause_reg, hotplug_vars, samples, param_ret >>
    \/ (\E done \in SUBSET Cpus : CheckTempApply(done))
           /\ UNCHANGED << poll_vars, unpause_reg, reads, hotplug_vars, samples, param_ret >>
    \/ CheckTempReschedule /\ UNCHANGED << poll_vars, unpause_reg, reads, hotplug_vars, samples, param_ret >>
    \/ CheckTempSchedule /\ UNCHANGED << poll_vars, unpause_reg, reads, hotplug_vars, samples, param_ret >>
    \/ CheckTempTimer /\ UNCHANGED << poll_vars, unpause_reg, reads, hotplug_vars, samples, param_ret >>

SpecScenario == InitScenario /\ [][NextScenario]_vars

\* limit_idx after the k-th temperature of the sequence has been read is tr[k]
IndexTrace(tr) == reads # << >> => limit_idx = tr[Len(reads)]

\* C15 as stated: the sequence yields the limit_idx trace 4, 3, 2, 2, 4
ScenarioTraceAsStated == IndexTrace(<< 4, 3, 2, 2, 4 >>)

\* C15 amended: the sequence yields the limit_idx trace 4, 3, 2, 2, 3: the
\* reading 44 is below throttle_temp - hysteresis = 60 and raises limit_idx by
\* one freq_step, from 2 to 3
ScenarioTrace == IndexTrace(<< 4, 3, 2, 2, 3 >>)

\* the whole sequence has been read
ScenarioDone == reads = ScenarioTemps /\ limit_idx = 3 /\ ct_pc = "idle"


----------------------------------------------------------------------------
(* auto_hotplug: the branches of the decision                               *)

\* the decision returns and the condition of its all-on branch holds
AllOnStep ==
    /\ dec_pc = "decide"
    /\ dec_pc' = "idle"
    /\ HOTPLUG_DISABLED \notin flags
    /\ avg_running >= enable_all_load_threshold
    /\ online_cpus < CPUS_AVAILABLE
    /\ online_cpus < max_online_cpus

----------------------------------------------------------------------------
(* auto_hotplug: load at the boundary of the single-off branch              *)

\* the value written to disable_load_threshold, and the sample that puts the
\* average of a full history at disable_load with every core online
BoundaryWrites == {100}
BoundaryLoad == 100 * CPUS_AVAILABLE

\* a run of the sampler with one of the loads 0, BoundaryLoad, 500
DecisionLoad ==
    \E running \in {0, BoundaryLoad, 500} : DecisionSample(running, TRUE, 0)

NextSingleOff ==
    \/ DecisionTimer /\ UNCHANGED limiter_vars
    \/ OfflineTimer /\ UNCHANGED limiter_vars
    \/ UnpauseTimer /\ UNCHANGED limiter_vars
    \/ DecisionLoad /\ UNCHANGED limiter_vars
    \/ DecisionDecide /\ UNCHANGED limiter_vars
    \/ (\E up \in SUBSET Cpus : OnlineAll(up)) /\ UNCHANGED limiter_vars
    \/ (\E ok \in BOOLEAN : OnlineSingle(ok)) /\ UNCHANGED limiter_vars
    \/ (\E ok \in BOOLEAN : Offline(ok)) /\ UNCHANGED limiter_vars
    \/ Unpause /\ UNCHANGED limiter_vars
    \/ BoostPulse /\ UNCHANGED limiter_vars
    \/ (\E num \in BoundaryWrites : SetDisableLoadThreshold(num))
            /\ UNCHANGED thermal_rest

SpecSingleOff == InitH /\ [][NextSingleOff]_vars

\* the decision returns and the condition of its single-off branch is the
\* first that holds
SingleOffStep ==
    /\ dec_pc = "decide"
    /\ dec_pc' = "idle"
    /\ HOTPLUG_DISABLED \notin flags
    /\ HOTPLUG_PAUSED \notin flags
    /\ ~ ( /\ avg_running >= enable_all_load_threshold
           /\ online_cpus < CPUS_AVAILABLE
           /\ online_cpus < max_online_cpus )
    /\ ~ ( /\ avg_running >= enable_load_threshold * online_cpus
           /\ online_cpus < CPUS_AVAILABLE
           /\ online_cpus < max_online_cpus )
    /\ avg_running <= disable_load_threshold * online_cpus
    /\ online_cpus > min_online_cpus

\* what a single-off decision does: no core changes state, and offline-one is
\* armed with its settle delay only if it was not pending
SingleOffArms ==
    SingleOffStep
        => /\ cpu_online' = cpu_online
           /\ hotplug_offline_work' =
                 (IF Pending(hotplug_offline_work) THEN hotplug_offline_work
                  ELSE "timer")

\* C17 as stated: a single-off decision (boundary included) takes no core
\* offline itself and arms offline-one only if none is pending, and every run
\* of offline-one takes exactly one core offline
SingleOffExactlyOne ==
    [][ /\ SingleOffArms
        /\ (\E ok \in BOOLEAN : Offline(ok))
            => Cardinality(cpu_online \ cpu_online') = 1 ]_vars

\* C17 amended: a single-off decision (boundary included) takes no core
\* offline itself and arms offline-one only if none is pending; a run of
\* offline-one brings no core online and takes at most one core offline:
\* exactly one when a core other than core 0 is online and cpu_down succeeds,
\* none otherwise
SingleOffAtMostOne ==
    [][ /\ SingleOffArms
        /\ (\E ok \in BOOLEAN : Offline(ok))
            => /\ cpu_online' \subseteq cpu_online
               /\ Cardinality(cpu_online \ cpu_online') <= 1
        /\ (Offline(TRUE) /\ cpu_online # {0})
            => Cardinality(cpu_online \ cpu_online') = 1
        /\ (Offline(FALSE) \/ (Offline(TRUE) /\ cpu_online = {0}))
            => cpu_online' = cpu_online ]_vars

\* every core is online, the average of the history is exactly disable_load,
\* and the decision has armed offline-one and re-armed itself
SingleOffAtBoundary ==
    /\ cpu_online = Cpus
    /\ disable_load_threshold = 100
    /\ history = [k \in 1 .. Len(history) |-> BoundaryLoad]
    /\ flags = {}
    /\ dec_pc = "idle"
    /\ hotplug_offline_work = "timer"
    /\ hotplug_decision_work = "timer"


----------------------------------------------------------------------------
(* auto_hotplug: the flags and the pending work                             *)

\* C18: whenever HOTPLUG_DISABLED is set and hotplug_disable(true) has
\* returned, none of the decision, offline-one, unpause, online-one and
\* online-all works is pending, and the decision function is not running.
DisabledNothingPending ==
    DisabledReturned
        => /\ ~Pending(hotplug_decision_work)
           /\ ~Pending(hotplug_offline_work)
           /\ ~Pending(hotplug_unpause_work)
           /\ ~Pending(hotplug_online_single_work)
           /\ ~Pending(hotplug_online_all_work)
           /\ dec_pc = "idle"


\* the decision function tests the flags and returns, HOTPLUG_PAUSED being set
PausedStep ==
    /\ dec_pc = "decide"
    /\ dec_pc' = "idle"
    /\ HOTPLUG_PAUSED \in flags

\* the condition of the all-on branch
AllOnCondition ==
    /\ HOTPLUG_DISABLED \notin flags
    /\ avg_running >= enable_all_load_threshold
    /\ online_cpus < CPUS_AVAILABLE
    /\ online_cpus < max_online_cpus

\* C19 as stated: a decision that finds HOTPLUG_PAUSED set triggers no
\* online-all, online-one or offline-one and re-arms the sampler
PausedTriggersNothing ==
    [][ PausedStep
            => /\ hotplug_online_all_work' = hotplug_online_all_work
               /\ hotplug_online_single_work' = hotplug_online_single_work
               /\ hotplug_offline_work' = hotplug_offline_work
               /\ Pending(hotplug_decision_work') ]_vars

\* C19 amended: a decision that finds HOTPLUG_PAUSED set triggers no
\* online-one and no offline-one. If the all-on condition holds it queues
\* online-all and does not re-arm the sampler; otherwise it triggers nothing,
\* leaves the flags alone and re-arms the sampler
PausedTriggersOnlyAllOn ==
    [][ PausedStep
            => /\ hotplug_online_single_work' = hotplug_online_single_work
               /\ (Pending(hotplug_offline_work')
                        => hotplug_offline_work' = hotplug_offline_work)
               /\ IF AllOnCondition
                  THEN /\ Pending(hotplug_online_all_work')
                       /\ hotplug_decision_work' = hotplug_decision_work
                  ELSE /\ hotplug_online_all_work' = hotplug_online_all_work
                       /\ hotplug_offline_work' = hotplug_offline_work
                       /\ flags' = flags
                       /\ Pending(hotplug_decision_work') ]_vars

\* the first decision after init has returned with the pause of init still
\* running: the sample is stored, the sampler is armed, nothing else is pending
PausedPassedThrough ==
    /\ flags = {HOTPLUG_PAUSED}
    /\ index = 1
    /\ dec_pc = "idle"
    /\ hotplug_decision_work = "timer"
    /\ hotplug_unpause_work = "timer"
    /\ ~Pending(hotplug_online_all_work)
    /\ ~Pending(hotplug_online_single_work)
    /\ ~Pending(hotplug_offline_work)
    /\ cpu_online = Cpus


\* C20: when online-all completes, the pause that follows lasts the full two
\* seconds: HOTPLUG_PAUSED is set, the unpause timer is armed by this very
\* call (schedule_delayed_work leaves a work that is already pending with the
\* earlier expiry it had, or on the workqueue), and no offline-one is left
\* pending that would take a core offline before the pause ends.
OnlineAllPausesTwoSeconds ==
    [][ (\E up \in SUBSET Cpus : OnlineAll(up))
            => /\ HOTPLUG_PAUSED \in flags'
               /\ hotplug_unpause_work = "idle"
               /\ hotplug_unpause_work' = "timer"
               /\ ~Pending(hotplug_offline_work') ]_vars


----------------------------------------------------------------------------
(* auto_hotplug: boost pulses                                               *)

\* hotplug_boostpulse is called with neither HOTPLUG_DISABLED nor
\* EARLYSUSPEND_ACTIVE set, BOOSTPULSE_ACTIVE clear and fewer than 2 cores
\* online
BoostFewCores ==
    /\ BoostPulse
    /\ HOTPLUG_DISABLED \notin flags
    /\ EARLYSUSPEND_ACTIVE \notin flags
    /\ BOOSTPULSE_ACTIVE \notin flags
    /\ Cardinality(cpu_online) < 2

\* C21: such a call leaves no offline-one pending, sets HOTPLUG_PAUSED and
\* BOOSTPULSE_ACTIVE, queues online-one, and the pause ends one second after
\* the call: the unpause timer is armed by this very call
\* (schedule_delayed_work leaves a work that is already pending with the
\* expiry it had, or on the workqueue).
BoostPausesOneSecond ==
    [][ BoostFewCores
            => /\ ~Pending(hotplug_offline_work')
               /\ flags' = flags \cup {HOTPLUG_PAUSED, BOOSTPULSE_ACTIVE}
               /\ Pending(hotplug_online_single_work')
               /\ hotplug_unpause_work = "idle"
               /\ hotplug_unpause_work' = "timer" ]_vars


\* a hotplug_boostpulse call that starts a pause: it is not blocked,
\* BOOSTPULSE_ACTIVE is clear, max_online_cpus allows another core, and either
\* fewer than 2 cores are online or an offline-one is pending
BoostStartsPause ==
    /\ BoostPulse
    /\ ~BoostBlocked
    /\ BOOSTPULSE_ACTIVE \notin flags
    /\ max_online_cpus > Cardinality(cpu_online)
    /\ (Cardinality(cpu_online) < 2 \/ Pending(hotplug_offline_work))

\* C22: when a boost pulse that starts a pause returns, HOTPLUG_PAUSED is set
\* and no offline-one is left pending, whether its timer was still armed or
\* had expired; an offline-one left on the workqueue runs next and calls
\* cpu_down during the pause.
BoostCancelsOffline ==
    [][ BoostStartsPause
            => /\ HOTPLUG_PAUSED \in flags'
               /\ ~Pending(hotplug_offline_work') ]_vars


\* C23: a hotplug_boostpulse call with 2 or more cores online and no
\* offline-one pending changes no flag and cancels or schedules no task.
BoostWithoutOfflineIsNoop ==
    [][ ( /\ BoostPulse
          /\ Cardinality(cpu_online) >= 2
          /\ ~Pending(hotplug_offline_work) )
            => /\ flags' = flags
               /\ work_vars' = work_vars ]_vars


----------------------------------------------------------------------------
(* Thermal limiter: the warning band, the recovery band and the poll delay  *)

\* a choice of delay that leaves out the COOL_TEMP test
PollTierNoCool == IF poll_faster THEN "hot" ELSE "base"

\* reschedule: which of the three delays schedule_delayed_work is given,
\* poll_ms - HOT_TEMP_OFFSET_MS ("hot"), poll_ms ("base") or
\* poll_ms + COOL_TEMP_OFFSET_MS ("cool")
PollTier ==
    IF ULt(COOL_TEMP(variant), temp)
    THEN (IF poll_faster THEN "hot" ELSE "base")
    ELSE "cool"

\* a check_temp, the table resolved before, reads a temperature T with
\* throttle_temp - hysteresis <= T < throttle_temp
WarningBandStep ==
    /\ ct_pc = "idle"
    /\ ct_pc' \notin {"idle", "bug"}
    /\ limit_init
    /\ temp' # 0
    /\ throttle_temp - temp_hysteresis_degC <= temp'
    /\ temp' < throttle_temp

\* C24 as stated: in both builds a reading in the warning band leaves
\* limit_idx and the ceiling as they are, skips setmaxfreq, and selects the
\* delay poll_ms - HOT_TEMP_OFFSET_MS
WarningBandHoldsAndPollsFaster ==
    [][ WarningBandStep
            => /\ limit_idx' = limit_idx
               /\ ct_pc' = "reschedule"
               /\ PollTier' = "hot" ]_vars

\* C24 amended.  Shutdown build: a reading in the warning band leaves
\* limit_idx and the ceiling as they are and skips setmaxfreq; near_limit is
\* set only for T > throttle_temp - hysteresis, so the delay is the short one
\* above the lower boundary and poll_ms at the boundary.  throttle_on build:
\* poll_faster is set on the whole band, boundary included, but limit_idx goes
\* back to limit_idx_high, and when it was lower the frequency of that entry
\* is applied at setmaxfreq.  In both builds a reading that is not above
\* COOL_TEMP selects poll_ms + COOL_TEMP_OFFSET_MS.
WarningBandPerBuild ==
    [][ WarningBandStep
            => IF variant = "shutdown"
               THEN /\ limit_idx' = limit_idx
                    /\ ct_pc' = "reschedule"
                    /\ poll_faster' = (temp' > throttle_temp - temp_hysteresis_degC)
                    /\ PollTier' = (IF temp' <= COOL_TEMP(variant) THEN "cool"
                                    ELSE IF poll_faster' THEN "hot" ELSE "base")
               ELSE /\ limit_idx' = limit_idx_high
                    /\ poll_faster'
                    /\ ct_pc' = (IF limit_idx = limit_idx_high THEN "reschedule"
                                 ELSE "setmaxfreq")
                    /\ (limit_idx # limit_idx_high
                            => max_freq' \in TableRead(limit_idx_high))
                    /\ PollTier' = (IF temp' <= COOL_TEMP(variant) THEN "cool"
                                    ELSE "hot") ]_vars

\* the shutdown build, throttled, has read the lower boundary of the band
WarningBandLowerBoundary ==
    /\ variant = "shutdown"
    /\ ct_pc = "reschedule"
    /\ limit_init
    /\ temp = throttle_temp - temp_hysteresis_degC
    /\ limit_idx < limit_idx_high
    /\ ~poll_faster
    /\ PollTier = "base"


\* a check_temp of the shutdown build, the table resolved before, reads a
\* temperature below throttle_temp - hysteresis
RecoveryStep ==
    /\ variant = "shutdown"
    /\ ct_pc = "idle"
    /\ ct_pc' \notin {"idle", "bug"}
    /\ limit_init
    /\ temp' # 0
    /\ temp' < throttle_temp - temp_hysteresis_degC

----------------------------------------------------------------------------
(* auto_hotplug: the sampler keeps itself going                             *)

\* the governor with HOTPLUG_DISABLED and EARLYSUSPEND_ACTIVE clear
\* throughout: the work functions, their timers and boost pulses
NextSustain ==
    \/ DecisionTimer /\ UNCHANGED limiter_vars
    \/ OfflineTimer /\ UNCHANGED limiter_vars
    \/ UnpauseTimer /\ UNCHANGED limiter_vars
    \/ DecisionAny /\ UNCHANGED limiter_vars
    \/ DecisionDecide /\ UNCHANGED limiter_vars
    \/ (\E up \in {{}, OnlineAllTargets} : OnlineAll(up)) /\ UNCHANGED limiter_vars
    \/ (\E ok \in BOOLEAN : OnlineSingle(ok)) /\ UNCHANGED limiter_vars
    \/ (\E ok \in BOOLEAN : Offline(ok)) /\ UNCHANGED limiter_vars
    \/ Unpause /\ UNCHANGED limiter_vars
    \/ BoostPulse /\ UNCHANGED limiter_vars

\* the kernel's timers expire and the workqueue runs every work that is queued
SustainFair ==
    /\ WF_vars(DecisionTimer /\ UNCHANGED limiter_vars)
    /\ WF_vars(OfflineTimer /\ UNCHANGED limiter_vars)
    /\ WF_vars(UnpauseTimer /\ UNCHANGED limiter_vars)
    /\ WF_vars(DecisionAny /\ UNCHANGED limiter_vars)
    /\ WF_vars(DecisionDecide /\ UNCHANGED limiter_vars)
    /\ WF_vars((\E up \in {{}, OnlineAllTargets} : OnlineAll(up))
                    /\ UNCHANGED limiter_vars)
    /\ WF_vars((\E ok \in BOOLEAN : OnlineSingle(ok)) /\ UNCHANGED limiter_vars)
    /\ WF_vars((\E ok \in BOOLEAN : Offline(ok)) /\ UNCHANGED limiter_vars)
    /\ WF_vars(Unpause /\ UNCHANGED limiter_vars)

SpecSustain == InitH /\ [][NextSustain]_vars /\ SustainFair

\* C26: with HOTPLUG_DISABLED and EARLYSUSPEND_ACTIVE clear, every run of the
\* decision function is followed by a state in which the decision work is
\* pending again, scheduled by the function itself or by the online-all,
\* online-one or offline-one work it triggered, whatever boost pulses and
\* unpause runs come in between.
SamplerSelfSustaining ==
    (dec_pc = "decide") ~> Pending(hotplug_decision_work)

\* online-one, triggered by a decision with one core online, has brought
\* core 1 online and has armed the decision again
SamplerRearmedByOnlineOne ==
    /\ cpu_online = {0, 1}
    /\ dec_pc = "idle"
    /\ hotplug_online_single_work = "idle"
    /\ hotplug_decision_work = "timer"
    /\ BOOSTPULSE_ACTIVE \notin flags


----------------------------------------------------------------------------
(* Thermal limiter: sampling after enabled is written back to true         *)

\* C27: a set_enabled that writes true after set_enabled had written false
\* (no shutdown in between) resumes sampling: when it returns, a check_temp
\* is pending (its timer armed or the work queued) or running, as it is
\* whenever enabled is true.
EnableResumesSampling ==
    [][(SetEnabled(TRUE) /\ ~enabled /\ poweroff_calls = 0)
          => (Pending(check_temp_work') \/ ct_pc' # "idle")]_vars


----------------------------------------------------------------------------
(* Thermal limiter: the three poll delays                                  *)

HOT_TEMP_OFFSET_MS == 250
COOL_TEMP_OFFSET_MS == 250

\* a - k and a + k on 32-bit words, for 0 <= k < 2^31. In the two's
\* complement reading an unsigned wrap at 0 or at 2^32 is the step between
\* 0 and -1; the reading itself wraps between 2^31 - 1 and -2^31.
WordSub(a, k) ==
    IF a >= (-2147483647 - 1) + k
    THEN a - k
    ELSE 2147483647 - ((k - 1) - (a - (-2147483647 - 1)))

WordAdd(a, k) ==
    IF a <= 2147483647 - k
    THEN a + k
    ELSE (-2147483647 - 1) + ((k - 1) - (2147483647 - a))

\* the arguments of msecs_to_jiffies at reschedule, in unsigned int arithmetic
HotDelay(p) == WordSub(p, HOT_TEMP_OFFSET_MS)
BaseDelay(p) == p
CoolDelay(p) == WordAdd(p, COOL_TEMP_OFFSET_MS)

\* the delay check_temp picks with its locals temp and near_limit
PollDelay ==
    CASE PollTier = "hot" -> HotDelay(poll_ms)
      [] PollTier = "base" -> BaseDelay(poll_ms)
      [] PollTier = "cool" -> CoolDelay(poll_ms)

\* reschedule: schedule_delayed_work(&check_temp_work, msecs_to_jiffies(...)),
\* with the milliseconds it passes
CheckTempScheduleDelay ==
    /\ CheckTempSchedule
    /\ poll_delay' = PollDelay
    /\ UNCHANGED poll_ms

\* values of qcom,poll-ms around the offset, around 2^31 and at the top of
\* the range: -250 and -1 are the words of 2^32 - 250 and 2^32 - 1
PollValues == {0, 100, 249, 250, 251, 1000, 2147483647, -250, -1}

InitPoll ==
    /\ InitThermal
    /\ table # NULL
    /\ freq_step = 1
    /\ temp_hysteresis_degC = 2
    /\ poll_ms \in PollValues
    /\ poll_delay = 0
    /\ unpause_reg = NoLoad
    /\ reads = << >>
    /\ HotplugIdle
    /\ samples = << >>
    /\ param_ret = 0

NextPoll ==
    \/ CheckTempAny /\ UNCHANGED << poll_vars, unpause_reg, reads, hotplug_vars, samples, param_ret >>
    \/ CheckTempApply(Cpus) /\ UNCHANGED << poll_vars, unpause_reg, reads, hotplug_vars, samples, param_ret >>
    \/ CheckTempReschedule /\ UNCHANGED << poll_vars, unpause_reg, reads, hotplug_vars, samples, param_ret >>
    \/ CheckTempScheduleDelay /\ UNCHANGED << unpause_reg, reads, hotplug_vars, samples, param_ret >>
    \/ CheckTempTimer /\ UNCHANGED << poll_vars, unpause_reg, reads, hotplug_vars, samples, param_ret >>

SpecPoll == InitPoll /\ [][NextPoll]_vars

\* C28: for every poll_ms, a check_temp that re-arms itself in a warning or
\* throttling state passes poll_ms - 250 milliseconds, computed without
\* wrap-around, which is strictly less than the base delay poll_ms, which is
\* strictly less than the cool-state delay poll_ms + 250.
HotDelayShorterWithoutWrap ==
    [][(CheckTempScheduleDelay /\ PollTier = "hot")
          => /\ ULe(HOT_TEMP_OFFSET_MS, poll_ms)
             /\ poll_delay' = poll_ms - HOT_TEMP_OFFSET_MS
             /\ ULt(poll_delay', BaseDelay(poll_ms))
             /\ ULt(BaseDelay(poll_ms), CoolDelay(poll_ms))]_vars


----------------------------------------------------------------------------
(* auto_hotplug: max_online_cpus as a ceiling of the online count          *)

\* a write of max_online_cpus made while no more than num cores are online,
\* no decision is running and no online-all or online-one is queued
MaxOnlineCpusSetWithin(num) ==
    /\ Cardinality(cpu_online) <= num
    /\ dec_pc = "idle"
    /\ hotplug_online_all_work = "idle"
    /\ hotplug_online_single_work = "idle"
    /\ MaxOnlineCpusSet(num)

\* the governor neither disabled nor suspended, with writes of max_online_cpus
\* that the online count of the moment satisfies
NextMaxOnline ==
    \/ DecisionTimer /\ UNCHANGED limiter_vars
    \/ OfflineTimer /\ UNCHANGED limiter_vars
    \/ UnpauseTimer /\ UNCHANGED limiter_vars
    \/ DecisionAny /\ UNCHANGED limiter_vars
    \/ DecisionDecide /\ UNCHANGED limiter_vars
    \/ (\E up \in {{}, OnlineAllTargets} : OnlineAll(up)) /\ UNCHANGED limiter_vars
    \/ (\E ok \in BOOLEAN : OnlineSingle(ok)) /\ UNCHANGED limiter_vars
    \/ (\E ok \in BOOLEAN : Offline(ok)) /\ UNCHANGED limiter_vars
    \/ Unpause /\ UNCHANGED limiter_vars
    \/ BoostPulse /\ UNCHANGED limiter_vars
    \/ (\E num \in 1 .. CPUS_AVAILABLE : MaxOnlineCpusSetWithin(num))
            /\ UNCHANGED thermal_rest

SpecMaxOnline == InitH /\ [][NextMaxOnline]_vars

\* C29: max_online_cpus being written only while the online count is within
\* the value written and nothing that brings a core online is under way, and
\* constant otherwise, the decisions, online-all, online-one and boost pulses
\* never leave more than max_online_cpus cores online.
OnlineWithinMax == Cardinality(cpu_online) <= max_online_cpus


----------------------------------------------------------------------------
(* auto_hotplug: the governor during early suspend                         *)

\* auto_hotplug_early_suspend has returned and late resume has not been called
Suspended == EARLYSUSPEND_ACTIVE \in flags /\ es_pc = "idle"

\* C30: between the return of auto_hotplug_early_suspend and the call of
\* auto_hotplug_late_resume no step brings a core online and no run of the
\* decision function starts, so that core 0 stays the only online core once
\* offline-all has left it alone, whatever was pending or running when the
\* suspend came and whatever hotplug_disable(false) does meanwhile.
SuspendedGovernorQuiet ==
    [][Suspended => /\ cpu_online' \subseteq cpu_online
                    /\ ~(dec_pc = "idle" /\ dec_pc' # "idle")]_vars


----------------------------------------------------------------------------
(* auto_hotplug: flags &= ~HOTPLUG_PAUSED as a load and a store            *)

\* hotplug_unpause_work_fn starts and loads flags.  flags is a plain unsigned
\* char updated without a lock, so other contexts run between this load and
\* the store.
UnpauseLoad ==
    /\ hotplug_unpause_work = "queued"
    /\ unpause_reg = NoLoad
    /\ hotplug_unpause_work' = "idle"
    /\ unpause_reg' = << flags >>
    /\ UNCHANGED << flags, cpu_online, hist_vars, hotplug_decision_work,
                    hotplug_offline_work, hotplug_online_all_work,
                    hotplug_online_single_work, hotplug_offline_all_work,
                    dec_locals, call_pcs, tun_vars >>

\* hotplug_unpause_work_fn stores the byte it loaded, HOTPLUG_PAUSED cleared,
\* and returns
UnpauseStore ==
    /\ unpause_reg # NoLoad
    /\ flags' = unpause_reg[1] \ {HOTPLUG_PAUSED}
    /\ unpause_reg' = NoLoad
    /\ UNCHANGED << cpu_online, hist_vars, work_vars, dec_locals, call_pcs,
                    tun_vars >>

\* what the unpause steps leave alone in this specification
unpause_rest == << thermal_vars, poll_vars, reads, samples, param_ret >>

\* the governor outside suspend with hotplug_unpause_work_fn in two steps;
\* the cancel_delayed_work_sync of hotplug_disable waits for a running unpause
NextFlags ==
    \/ DecisionTimer /\ UNCHANGED limiter_vars
    \/ OfflineTimer /\ UNCHANGED limiter_vars
    \/ UnpauseTimer /\ UNCHANGED limiter_vars
    \/ DecisionAny /\ UNCHANGED limiter_vars
    \/ DecisionDecide /\ UNCHANGED limiter_vars
    \/ (\E up \in {{}, OnlineAllTargets} : OnlineAll(up)) /\ UNCHANGED limiter_vars
    \/ (\E ok \in BOOLEAN : OnlineSingle(ok)) /\ UNCHANGED limiter_vars
    \/ (\E ok \in BOOLEAN : Offline(ok)) /\ UNCHANGED limiter_vars
    \/ UnpauseLoad /\ UNCHANGED unpause_rest
    \/ UnpauseStore /\ UNCHANGED unpause_rest
    \/ (\E flag \in BOOLEAN : HotplugDisable(flag)) /\ UNCHANGED limiter_vars
    \/ HotplugDisableCancel /\ unpause_reg = NoLoad /\ UNCHANGED limiter_vars
    \/ BoostPulse /\ UNCHANGED limiter_vars
    \/ BoostReturn /\ UNCHANGED limiter_vars

SpecFlags == InitH /\ [][NextFlags]_vars

\* C31: no update of flags is lost: when hotplug_unpause_work_fn completes
\* its clearing of HOTPLUG_PAUSED, every other bit keeps the value its last
\* writer (hotplug_disable, the suspend hooks, the decision function, a boost
\* pulse) gave it in the meantime, and HOTPLUG_PAUSED is clear.
UnpauseLosesNoUpdate ==
    [][UnpauseStore => flags' = flags \ {HOTPLUG_PAUSED}]_vars

=============================================================================
